---- MODULE Spec2Model ----
(***************************************************************************)
(* Model of the CASM compiler: CodeGenerator (src/src/codegen.py) and      *)
(* StandardLibrary.get_dependencies (src/libs/stdio.py).                   *)
(*                                                                         *)
(* CodeGenerator is a recursive-descent walk over the token list.  Every   *)
(* activation of generate_if / generate_for / generate_while /             *)
(* generate_function that is waiting in generate_block is a record on      *)
(* `frames`; one action is the work the generator does on one source line. *)
(* The token list has passed SyntaxChecker.check, so closers arrive        *)
(* properly nested.  Emitted lines are records: `op` is the mnemonic (or   *)
(* the kind of line), operands are kept as the text the generator prints.  *)
(***************************************************************************)
EXTENDS Integers, Sequences, FiniteSets, TLC

VARIABLES
    bits,             \* CodeGenerator.bits
    reg_pool,         \* CodeGenerator._reg_pool
    output,           \* CodeGenerator.output
    label_counter,    \* CodeGenerator.label_counter
    block_counter,    \* CodeGenerator.block_counter
    string_counter,   \* CodeGenerator.string_counter
    data_section,     \* CodeGenerator.data_section
    stdlib_used,      \* CodeGenerator.stdlib_used
    loop_stack,       \* CodeGenerator.loop_stack
    register_map,     \* CodeGenerator.register_map
    functions,        \* CodeGenerator.functions (keys)
    current_function, \* CodeGenerator.current_function
    frames,           \* open generate_* activations, innermost last
    line,             \* line of the current token
    status,           \* "gen" | "done" | "error"
    iflog,            \* one record per `if` header the generator processed
    calllog,          \* one record per `call` the generator processed
    forlog,           \* one record per `for` header the generator processed
    pc,               \* machine executing `output`: index of next line
    regs,             \* machine registers
    flags,            \* operands of the last executed cmp
    entries,          \* loop-register values seen at successive body entries
    entry,            \* the function entered and the registers at its entry
    runs,             \* get_dependencies results of the runs made so far
    written,          \* lines Compiler.compile wrote to the output file
    source,           \* lines of the input file, each a sequence of atoms
    tokens,           \* Lexer.tokens
    lexed,            \* "no" | "ok" | "raised": outcome of Lexer.tokenize
    chk,              \* SyntaxChecker: pos, stack, errors
    merged,           \* lines returned by format_and_merge
    comp              \* Compiler.compile: phases started, result

vars == <<bits, reg_pool, output, label_counter, block_counter, string_counter,
          data_section, stdlib_used, loop_stack, register_map, functions,
          current_function, frames, line, status, iflog, calllog,
          forlog, pc, regs, flags, entries, entry, runs, written, source, tokens,
          lexed, chk, merged, comp>>

genVars == <<bits, reg_pool, output, label_counter, block_counter,
             string_counter, data_section, stdlib_used, loop_stack,
             register_map, functions, current_function, frames, line, status,
             iflog, calllog, forlog>>

runVars == <<pc, regs, flags, entries, entry>>

pipeVars == <<written, source, tokens, lexed, chk, merged, comp>>

(***************************************************************************)
(* Bounds                                                                  *)
(***************************************************************************)
MaxLines == 5        \* source lines fed to the generator
MaxDepth == 3        \* open constructs
MaxLoopLines == 3    \* source lines of the programs that are executed
MaxCalls == 2        \* call lines of the programs whose helpers are resolved
MaxRuns == 2         \* compilations of the same source that are compared
MaxSrcLines == 3     \* lines of the source texts that are tokenised
MaxCheckLines == 4   \* lines of the source texts that are syntax-checked
MaxFmtLines == 4     \* lines of the source texts that are formatted

(***************************************************************************)
(* Helpers                                                                 *)
(***************************************************************************)
Range(f) == {f[x] : x \in DOMAIN f}

Last(s) == s[Len(s)]

Front(s) == SubSeq(s, 1, Len(s) - 1)

NoneFn == "<none>"

\* str.lower() on the atoms of the sources that are not lower-case
Lower(a) ==
    CASE a = "IF" -> "if" [] a = "EndIf" -> "endif" [] a = "Section" -> "section"
      [] OTHER -> a

RECURSIVE lstrip(_)
lstrip(ln) == IF ln # <<>> /\ ln[1] = " " THEN lstrip(Tail(ln)) ELSE ln

RECURSIVE rstrip(_)
rstrip(ln) == IF ln # <<>> /\ Last(ln) = " " THEN rstrip(Front(ln)) ELSE ln

strip(ln) == rstrip(lstrip(ln))

\* x64 preference order of generate_for and the initial _reg_pool
base_prefs == <<"r8", "r9", "r10", "r11", "r12", "r13", "r14", "r15", "rbx">>

pool32 == <<"ebx", "esi", "edi">>

\* token classes of the lexer that matter to the generator
LexRegisters == {"rax", "rbx", "rcx", "rdx", "rsi", "rdi", "r8", "r9", "r10",
                 "r11", "r12", "r13", "r14", "r15", "eax", "ebx", "ecx", "edx"}

\* the architectural register a register name lives in
Phys(r) ==
    CASE r = "r8d"  -> "r8"
      [] r = "r9d"  -> "r9"
      [] r = "r10d" -> "r10"
      [] r = "r11d" -> "r11"
      [] r = "r12d" -> "r12"
      [] r = "r13d" -> "r13"
      [] r = "r14d" -> "r14"
      [] r = "r15d" -> "r15"
      [] r = "ebx"  -> "rbx"
      [] r = "ecx"  -> "rcx"
      [] r = "edx"  -> "rdx"
      [] r = "eax"  -> "rax"
      [] r = "esi"  -> "rsi"
      [] r = "edi"  -> "rdi"
      [] OTHER      -> r

\* subreg32 nested in generate_for
subreg32(r) ==
    CASE r = "r8"  -> "r8d"
      [] r = "r9"  -> "r9d"
      [] r = "r10" -> "r10d"
      [] r = "r11" -> "r11d"
      [] r = "r12" -> "r12d"
      [] r = "r13" -> "r13d"
      [] r = "r14" -> "r14d"
      [] r = "r15" -> "r15d"
      [] r = "rbx" -> "ebx"
      [] OTHER     -> r

\* dict assignment register_map[k] = v
MapPut(m, k, v) == [x \in (DOMAIN m) \cup {k} |-> IF x = k THEN v ELSE m[x]]

\* del register_map[k] when present
MapDel(m, k) == [x \in (DOMAIN m) \ {k} |-> m[x]]

remap_reg(name) == IF name \in DOMAIN register_map THEN register_map[name] ELSE name

\* first entry of seq `prefs` that is not a value of map `m`, 0 when none
FirstFree(prefs, m) ==
    IF \E k \in 1..Len(prefs) : prefs[k] \notin Range(m)
    THEN CHOOSE k \in 1..Len(prefs) :
            /\ prefs[k] \notin Range(m)
            /\ \A j \in 1..(k - 1) : prefs[j] \in Range(m)
    ELSE 0

\* lazy switch of the pool at the top of allocate_reg_for
PoolFor(b, pool) == IF b = 32 /\ pool[1] \in {"r8"} THEN pool32 ELSE pool

\* allocate_reg_for: the register handed out for a name under map m
allocate_reg_for(b, pool, m) ==
    LET p == PoolFor(b, pool)
        k == FirstFree(p, m)
    IN  IF k # 0 THEN p[k] ELSE p[1]

\* rotation of base_prefs by loop depth
RotatedPrefs(depth) ==
    LET n == Len(base_prefs)
        d == depth % n
    IN  [k \in 1..n |-> base_prefs[((k - 1 + d) % n) + 1]]

\* register selection of generate_for (internal_reg)
ForInternalReg(var, b, pool, m, depth) ==
    LET desired == var
        honoured == /\ b = 64
                    /\ var \in LexRegisters
                    /\ desired \in Range(base_prefs)
                    /\ desired \notin Range(m)
        k == FirstFree(RotatedPrefs(depth), m)
    IN  IF honoured THEN desired
        ELSE IF b = 64 /\ k # 0 THEN RotatedPrefs(depth)[k]
        ELSE allocate_reg_for(b, pool, m)

ForLoopReg(internal, b) == IF b = 64 THEN subreg32(internal) ELSE internal

(***************************************************************************)
(* Emitted lines                                                           *)
(***************************************************************************)
GenStart(id, ln) == [op |-> "gen_start", id |-> id, line |-> ln]
GenEnd(id, ln)   == [op |-> "gen_end", id |-> id, line |-> ln]
Label(n)         == [op |-> "label", lbl |-> n]
Jmp(n, by)       == [op |-> "jmp", lbl |-> n, by |-> by]
Jcc(cc, n)       == [op |-> cc, lbl |-> n]
Ins2(op, d, s)   == [op |-> op, dst |-> d, src |-> s]
Ins1(op, d)      == [op |-> op, dst |-> d]
Ins0(op)         == [op |-> op]

JccOps == {"jne", "je", "jge", "jle", "jg", "jl"}

(***************************************************************************)
(* Initial state: CodeGenerator.__init__                                   *)
(***************************************************************************)
Init ==
    /\ bits = 64
    /\ reg_pool = base_prefs
    /\ output = <<>>
    /\ label_counter = 0
    /\ block_counter = 0
    /\ string_counter = 0
    /\ data_section = <<>>
    /\ stdlib_used = {}
    /\ loop_stack = <<>>
    /\ register_map = <<>>
    /\ functions = {}
    /\ current_function = NoneFn
    /\ frames = <<>>
    /\ line = 1
    /\ status = "gen"
    /\ iflog = <<>>
    /\ calllog = <<>>
    /\ forlog = <<>>
    /\ pc = 0
    /\ regs = <<>>
    /\ flags = <<0, 0>>
    /\ entries = <<>>
    /\ entry = [id |-> -1, regs |-> <<>>]
    /\ runs = <<>>
    /\ written = <<>>
    /\ source = <<>>
    /\ tokens = <<>>
    /\ lexed = "no"
    /\ chk = [pos |-> 1, stack |-> <<>>, errors |-> <<>>, done |-> FALSE]
    /\ merged = [done |-> FALSE]
    /\ comp = [started |-> <<>>, result |-> "none", failed |-> "none",
               wrote |-> FALSE]

CanRead == status = "gen" /\ line <= MaxLines

\* a block can be closed while tokens are left and once they are used up
\* (status "eof": current_token() is None)
CanClose == status \in {"gen", "eof"} /\ frames # <<>>

\* end_line of the block of frame f: the line of the current token, else
\* start_line
end_line(f) == IF status = "eof" THEN f.start_line ELSE line

\* the line after a closer has been passed
AfterCloser == IF status = "eof" THEN line ELSE line + 1

CanOpen == CanRead /\ Len(frames) < MaxDepth

(***************************************************************************)
(* generate_for                                                            *)
(***************************************************************************)
\* ForHeader with an end-inclusive test
ForHeaderInclusive(loop_reg, start, end, l_start, l_end) ==
    << Ins2("mov", loop_reg, start),
       Label(l_start),
       Ins2("cmp", loop_reg, end),
       Jcc("jg", l_end) >>

\* header lines of generate_for (codegen.py 604-609)
ForHeader(loop_reg, start, end, l_start, l_end) ==
    << Ins2("mov", loop_reg, start),
       Label(l_start),
       Ins2("cmp", loop_reg, end),
       Jcc("jge", l_end) >>

\* lines generate_for emits after the body (codegen.py 613-616)
ForTail(f) ==
    << Label(f.l_cont),
       Ins1("inc", f.loop_reg),
       Jmp(f.l_start, "for"),
       Label(f.l_end) >>

ForOpen(var, start, end) ==
    /\ CanOpen
    /\ LET internal == ForInternalReg(var, bits, reg_pool, register_map,
                                      Len(loop_stack))
           loop_reg == ForLoopReg(internal, bits)
           l_start  == label_counter
           l_end    == label_counter + 1
           l_cont   == label_counter + 2
       IN  /\ register_map' = MapPut(register_map, var, loop_reg)
           /\ loop_stack' = Append(loop_stack, [break |-> l_end, continue |-> l_cont])
           /\ output' = output \o <<GenStart(block_counter, line)>>
                               \o ForHeader(loop_reg, start, end, l_start, l_end)
           /\ frames' = Append(frames,
                 [kind |-> "for", id |-> block_counter, start_line |-> line,
                  var |-> var, loop_reg |-> loop_reg, l_start |-> l_start,
                  l_end |-> l_end, l_cont |-> l_cont])
           /\ forlog' = Append(forlog,
                 [id |-> block_counter, var |-> var, start |-> start,
                  end |-> end, loop_reg |-> loop_reg, l_end |-> l_end])
    /\ reg_pool' = PoolFor(bits, reg_pool)
    /\ label_counter' = label_counter + 3
    /\ block_counter' = block_counter + 1
    /\ line' = line + 1
    /\ UNCHANGED <<bits, string_counter, data_section, stdlib_used, functions,
                   current_function, status, iflog, calllog, runVars, runs, pipeVars>>

EndFor ==
    /\ CanClose
    /\ Last(frames).kind = "for"
    /\ LET f == Last(frames)
       IN  /\ output' = output \o ForTail(f) \o <<GenEnd(f.id, end_line(f))>>
           /\ register_map' = MapDel(register_map, f.var)
    /\ loop_stack' = Front(loop_stack)
    /\ frames' = Front(frames)
    /\ line' = AfterCloser
    /\ UNCHANGED <<bits, reg_pool, label_counter, block_counter, string_counter,
                   data_section, stdlib_used, functions, current_function,
                   status, iflog, calllog, forlog, runVars, runs, pipeVars>>

(***************************************************************************)
(* generate_function                                                       *)
(***************************************************************************)
arg_regs == <<"rcx", "rdx", "r8", "r9">>

RECURSIVE FuncPrologue(_, _, _, _, _)
\* the parameter loop of generate_function: <<register_map, lines>> after
\* parameters i.. of `params` when the map is m
FuncPrologue(params, i, b, pool, m) ==
    IF i > Len(params) THEN <<m, <<>>>>
    ELSE LET internal == allocate_reg_for(b, pool, m)
             m2   == MapPut(m, params[i], internal)
             ln   == IF b = 64
                     THEN IF i <= Len(arg_regs)
                          THEN Ins2("mov", internal, arg_regs[i])
                          ELSE [op |-> "comment", text |-> "WARNING"]
                     ELSE Ins2("mov", internal, "dword [ebp+]")
             rest == FuncPrologue(params, i + 1, b, pool, m2)
         IN  <<rest[1], <<ln>> \o rest[2]>>

FuncOpen(name, params) ==
    /\ CanOpen
    /\ LET pro == FuncPrologue(params, 1, bits, reg_pool, register_map)
       IN  /\ register_map' = pro[1]
           /\ output' = output \o
                 << GenStart(block_counter, line),
                    [op |-> "flabel", name |-> name],
                    Ins1("push", IF bits = 64 THEN "rbp" ELSE "ebp"),
                    IF bits = 64 THEN Ins2("mov", "rbp", "rsp")
                                 ELSE Ins2("mov", "ebp", "esp") >> \o pro[2]
    /\ reg_pool' = IF params = <<>> THEN reg_pool ELSE PoolFor(bits, reg_pool)
    /\ functions' = functions \cup {name}
    /\ current_function' = name
    /\ frames' = Append(frames,
          [kind |-> "func", id |-> block_counter, start_line |-> line,
           name |-> name, params |-> params])
    /\ block_counter' = block_counter + 1
    /\ line' = line + 1
    /\ UNCHANGED <<bits, label_counter, string_counter, data_section,
                   stdlib_used, loop_stack, status, iflog, calllog, forlog, runVars, runs, pipeVars>>

EndFunc ==
    /\ CanClose
    /\ Last(frames).kind = "func"
    /\ output' = output \o
          << Ins1("pop", IF bits = 64 THEN "rbp" ELSE "ebp"),
             Ins0("ret"),
             GenEnd(Last(frames).id, end_line(Last(frames))) >>
    /\ current_function' = NoneFn
    /\ frames' = Front(frames)
    /\ line' = AfterCloser
    /\ UNCHANGED <<bits, reg_pool, label_counter, block_counter, string_counter,
                   data_section, stdlib_used, loop_stack, register_map,
                   functions, status, iflog, calllog, forlog, runVars, runs, pipeVars>>

(***************************************************************************)
(* Conditions of if / elif / while                                         *)
(***************************************************************************)
\* numeric literals the model feeds, with int(text)
NumVal == [n \in {"0", "1", "2", "3", "2147483646", "2147483647"} |->
             CASE n = "0" -> 0 [] n = "1" -> 1 [] n = "2" -> 2 [] n = "3" -> 3
               [] n = "2147483646" -> 2147483646
               [] n = "2147483647" -> 2147483647]

\* the literal 2^31, the first one beyond the signed 32-bit range
BigLit == "2147483648"

Num(t)   == [type |-> "NUMBER", value |-> t]
Reg(t)   == [type |-> "REGISTER", value |-> t]
Ident(t) == [type |-> "IDENTIFIER", value |-> t]
Str(t)   == [type |-> "STRING", value |-> t]

CmpOps == {"EQ", "NE", "LT", "GT", "LE", "GE"}

\* cond_map
cond_map(op, a, b) ==
    CASE op = "EQ" -> a = b
      [] op = "NE" -> a # b
      [] op = "LT" -> a < b
      [] op = "GT" -> a > b
      [] op = "LE" -> a <= b
      [] op = "GE" -> a >= b

\* jump_map
jump_map(op) ==
    CASE op = "EQ" -> "jne"
      [] op = "NE" -> "je"
      [] op = "LT" -> "jge"
      [] op = "GT" -> "jle"
      [] op = "LE" -> "jg"
      [] op = "GE" -> "jl"

BothNumeric(lhs, rhs) == lhs.type = "NUMBER" /\ rhs.type = "NUMBER"

Folded(lhs, op, rhs) == cond_map(op, NumVal[lhs.value], NumVal[rhs.value])

\* parse_operand on a simple operand: registers are remapped
OperandText(t) == IF t.type = "REGISTER" THEN remap_reg(t.value) ELSE t.value

\* the cmp line of a condition whose sides are not both numeric: a numeric
\* left side is swapped to the right
CmpLine(lhs, rhs) ==
    IF lhs.type = "NUMBER"
    THEN Ins2("cmp", OperandText(rhs), lhs.value)
    ELSE Ins2("cmp", OperandText(lhs), rhs.value)

\* lines generate_if emits for the condition of `if` (codegen.py 339-380)
IfHeader(lhs, op, rhs, label_next) ==
    (IF BothNumeric(lhs, rhs)
     THEN IF Folded(lhs, op, rhs) THEN <<>> ELSE <<Jmp(label_next, "if")>>
     ELSE <<CmpLine(lhs, rhs)>>)
    \o <<Jcc(jump_map(op), label_next)>>

\* lines generate_if emits for the condition of `elif` (codegen.py 419-447)
ElifHeader(lhs, op, rhs, label_next) ==
    IF BothNumeric(lhs, rhs)
    THEN IF Folded(lhs, op, rhs) THEN <<>> ELSE <<Jmp(label_next, "if")>>
    ELSE <<CmpLine(lhs, rhs), Jcc(jump_map(op), label_next)>>

\* lines generate_while emits for its condition (codegen.py 676-716)
WhileHeader(lhs, op, rhs, label_end) ==
    IF BothNumeric(lhs, rhs)
    THEN IF Folded(lhs, op, rhs) THEN <<>> ELSE <<Jmp(label_end, "while")>>
    ELSE <<CmpLine(lhs, rhs), Jcc(jump_map(op), label_end)>>

(***************************************************************************)
(* generate_if                                                             *)
(***************************************************************************)
IfOpen(lhs, op, rhs) ==
    /\ CanOpen
    /\ LET label_next == label_counter
           label_end  == label_counter + 1
           hdr        == IfHeader(lhs, op, rhs, label_next)
       IN  /\ output' = output \o <<GenStart(block_counter, line)>> \o hdr
           /\ frames' = Append(frames,
                 [kind |-> "if", id |-> block_counter, start_line |-> line,
                  label_next |-> label_next, label_end |-> label_end,
                  has_elif_or_else |-> FALSE, phase |-> "then"])
           /\ iflog' = Append(iflog,
                 [id |-> block_counter, lhs |-> lhs, op |-> op, rhs |-> rhs,
                  hdr |-> Len(hdr), nelif |-> 0, has_else |-> FALSE,
                  closed |-> FALSE])
    /\ label_counter' = label_counter + 2
    /\ block_counter' = block_counter + 1
    /\ line' = line + 1
    /\ UNCHANGED <<bits, reg_pool, string_counter, data_section, stdlib_used,
                   loop_stack, register_map, functions, current_function,
                   status, calllog, forlog, runVars, runs, pipeVars>>

\* what follows a finished branch when ELIF or ELSE is the current token:
\* after the true block (386-391) and after an elif block (450-451)
BranchExit(f) == <<Jmp(f.label_end, "if"), Label(f.label_next)>>

LogIf(id, addElif, setElse, setClosed) ==
    [k \in DOMAIN iflog |->
        IF iflog[k].id = id
        THEN [iflog[k] EXCEPT !.nelif = @ + addElif,
                              !.has_else = @ \/ setElse,
                              !.closed = @ \/ setClosed]
        ELSE iflog[k]]

Elif(lhs, op, rhs) ==
    /\ CanRead
    /\ frames # <<>>
    /\ Last(frames).kind = "if"
    /\ Last(frames).phase \in {"then", "elif"}
    /\ LET f == Last(frames)
           label_next == label_counter
       IN  /\ output' = output \o BranchExit(f)
                               \o ElifHeader(lhs, op, rhs, label_next)
           /\ frames' = [frames EXCEPT ![Len(frames)] =
                 [f EXCEPT !.label_next = label_next,
                           !.has_elif_or_else = TRUE,
                           !.phase = "elif"]]
           /\ iflog' = LogIf(f.id, 1, FALSE, FALSE)
    /\ label_counter' = label_counter + 1
    /\ line' = line + 1
    /\ UNCHANGED <<bits, reg_pool, block_counter, string_counter, data_section,
                   stdlib_used, loop_stack, register_map, functions,
                   current_function, status, calllog, forlog, runVars, runs, pipeVars>>

Else ==
    /\ CanRead
    /\ frames # <<>>
    /\ Last(frames).kind = "if"
    /\ Last(frames).phase \in {"then", "elif"}
    /\ LET f == Last(frames)
       IN  /\ output' = output \o BranchExit(f)
           /\ frames' = [frames EXCEPT ![Len(frames)] =
                 [f EXCEPT !.has_elif_or_else = TRUE, !.phase = "else"]]
           /\ iflog' = LogIf(f.id, 0, TRUE, FALSE)
    /\ line' = line + 1
    /\ UNCHANGED <<bits, reg_pool, label_counter, block_counter, string_counter,
                   data_section, stdlib_used, loop_stack, register_map,
                   functions, current_function, status, calllog, forlog, runVars, runs, pipeVars>>

\* an `elif <cond>` or `else` line met in the else block: SyntaxChecker
\* accepts it (the innermost open construct is an if), and
\* generate_block([ENDIF]) advances over its tokens one by one (868-869);
\* generate_if handles no branch for it
SkipAfterElse ==
    /\ CanRead
    /\ frames # <<>>
    /\ Last(frames).kind = "if"
    /\ Last(frames).phase = "else"
    /\ line' = line + 1
    /\ UNCHANGED <<bits, reg_pool, output, label_counter, block_counter,
                   string_counter, data_section, stdlib_used, loop_stack,
                   register_map, functions, current_function, frames, status,
                   iflog, calllog, forlog, runVars, runs, pipeVars>>

\* IfTail with the end label placed whether or not a branch followed
IfTailAlwaysEnd(f, ln) ==
    (CASE f.phase = "then" -> <<Label(f.label_next)>>
       [] f.phase = "elif" -> BranchExit(f)
       [] f.phase = "else" -> <<>>)
    \o <<Label(f.label_end), GenEnd(f.id, ln)>>

\* lines generate_if emits once ENDIF is the current token
IfTail(f, ln) ==
    (CASE f.phase = "then" -> <<Label(f.label_next)>>
       [] f.phase = "elif" -> BranchExit(f)
       [] f.phase = "else" -> <<>>)
    \o (IF f.has_elif_or_else THEN <<Label(f.label_end)>> ELSE <<>>)
    \o <<GenEnd(f.id, ln)>>

EndIf ==
    /\ CanClose
    /\ Last(frames).kind = "if"
    /\ output' = output \o IfTail(Last(frames), end_line(Last(frames)))
    /\ iflog' = LogIf(Last(frames).id, 0, FALSE, TRUE)
    /\ frames' = Front(frames)
    /\ line' = AfterCloser
    /\ UNCHANGED <<bits, reg_pool, label_counter, block_counter, string_counter,
                   data_section, stdlib_used, loop_stack, register_map,
                   functions, current_function, status, calllog, forlog, runVars, runs, pipeVars>>

(***************************************************************************)
(* generate_while                                                          *)
(***************************************************************************)
WhileOpen(lhs, op, rhs) ==
    /\ CanOpen
    /\ LET l_start == label_counter
           l_end   == label_counter + 1
           l_cont  == label_counter + 2
       IN  /\ loop_stack' = Append(loop_stack, [break |-> l_end, continue |-> l_cont])
           /\ output' = output \o
                 <<GenStart(block_counter, line), Label(l_start), Label(l_cont)>>
                 \o WhileHeader(lhs, op, rhs, l_end)
           /\ frames' = Append(frames,
                 [kind |-> "while", id |-> block_counter, start_line |-> line,
                  l_start |-> l_start, l_end |-> l_end, l_cont |-> l_cont])
    /\ label_counter' = label_counter + 3
    /\ block_counter' = block_counter + 1
    /\ line' = line + 1
    /\ UNCHANGED <<bits, reg_pool, string_counter, data_section, stdlib_used,
                   register_map, functions, current_function, status, iflog,
                   calllog, forlog, runVars, runs, pipeVars>>

EndWhile ==
    /\ CanClose
    /\ Last(frames).kind = "while"
    /\ LET f == Last(frames)
       IN  output' = output \o
              <<Jmp(f.l_start, "while"), Label(f.l_end), GenEnd(f.id, end_line(f))>>
    /\ loop_stack' = Front(loop_stack)
    /\ frames' = Front(frames)
    /\ line' = AfterCloser
    /\ UNCHANGED <<bits, reg_pool, label_counter, block_counter, string_counter,
                   data_section, stdlib_used, register_map, functions,
                   current_function, status, iflog, calllog, forlog, runVars, runs, pipeVars>>

(***************************************************************************)
(* generate_break, generate_continue, generate_return                      *)
(***************************************************************************)
\* Break jumping to the break label of the outermost open loop
BreakOutermost ==
    /\ CanRead
    /\ IF loop_stack = <<>>
       THEN /\ status' = "error"
            /\ UNCHANGED <<output, line>>
       ELSE /\ output' = Append(output, Jmp(loop_stack[1].break, "break"))
            /\ line' = line + 1
            /\ UNCHANGED status
    /\ UNCHANGED <<bits, reg_pool, label_counter, block_counter, string_counter,
                   data_section, stdlib_used, loop_stack, register_map,
                   functions, current_function, frames, iflog, calllog,
                   forlog, runVars, runs, pipeVars>>

Break ==
    /\ CanRead
    /\ IF loop_stack = <<>>
       THEN /\ status' = "error"
            /\ UNCHANGED <<output, line>>
       ELSE /\ output' = Append(output, Jmp(Last(loop_stack).break, "break"))
            /\ line' = line + 1
            /\ UNCHANGED status
    /\ UNCHANGED <<bits, reg_pool, label_counter, block_counter, string_counter,
                   data_section, stdlib_used, loop_stack, register_map,
                   functions, current_function, frames, iflog, calllog,
                   forlog, runVars, runs, pipeVars>>

Continue ==
    /\ CanRead
    /\ IF loop_stack = <<>>
       THEN /\ status' = "error"
            /\ UNCHANGED <<output, line>>
       ELSE /\ output' = Append(output, Jmp(Last(loop_stack).continue, "continue"))
            /\ line' = line + 1
            /\ UNCHANGED status
    /\ UNCHANGED <<bits, reg_pool, label_counter, block_counter, string_counter,
                   data_section, stdlib_used, loop_stack, register_map,
                   functions, current_function, frames, iflog, calllog,
                   forlog, runVars, runs, pipeVars>>

Return ==
    /\ CanRead
    /\ output' = output \o
          <<Ins1("pop", IF bits = 64 THEN "rbp" ELSE "ebp"), Ins0("ret")>>
    /\ line' = line + 1
    /\ UNCHANGED <<bits, reg_pool, label_counter, block_counter, string_counter,
                   data_section, stdlib_used, loop_stack, register_map,
                   functions, current_function, frames, status, iflog, calllog,
                   forlog, runVars, runs, pipeVars>>

(***************************************************************************)
(* ASM_LINE tokens: skipped by generate(), remapped and emitted by         *)
(* generate_block                                                          *)
(***************************************************************************)
\* remap_asm_line on a line given as its words
remap_asm_line(words) == [k \in DOMAIN words |-> remap_reg(words[k])]

AsmLine(words) ==
    /\ CanRead
    /\ output' = IF frames = <<>> THEN output
                 ELSE Append(output, [op |-> "asm", words |-> remap_asm_line(words)])
    /\ line' = line + 1
    /\ UNCHANGED <<bits, reg_pool, label_counter, block_counter, string_counter,
                   data_section, stdlib_used, loop_stack, register_map,
                   functions, current_function, frames, status, iflog, calllog,
                   forlog, runVars, runs, pipeVars>>

(***************************************************************************)
(* generate_call and its helpers                                           *)
(***************************************************************************)
\* names generate_call dispatches to generate_stdlib_call (codegen.py 925)
StdlibCallNames == {"strlen", "strcpy", "strcmp", "strcat", "abs", "min", "max",
                    "pow", "arraysum", "arrayfill", "arraycopy", "memset",
                    "memcpy", "rand", "sleep"}

\* every helper name generate_call recognises
HelperNames == {"print", "println", "scan", "scanint"} \cup StdlibCallNames

\* text of a NUMBER / IDENTIFIER / REGISTER argument
ArgVal(arg) ==
    IF arg.type \in {"REGISTER", "IDENTIFIER"} THEN remap_reg(arg.value)
    ELSE arg.value

StrLabel(n) == "_str_" \o ToString(n)

DataEntry(n, text) == [label |-> StrLabel(n), text |-> text]

RECURSIVE MarshalRegs(_, _, _)
\* the x64 argument loop over args[:4] of generate_call / generate_stdlib_call:
\* <<lines, data entries, string_counter>> from argument i on
MarshalRegs(args, i, sc) ==
    IF i > Len(args) \/ i > Len(arg_regs) THEN <<(<<>>), (<<>>), sc>>
    ELSE IF args[i].type = "STRING"
         THEN LET rest == MarshalRegs(args, i + 1, sc + 1)
              IN  << <<Ins2("lea", arg_regs[i], StrLabel(sc))>> \o rest[1],
                     <<DataEntry(sc, args[i].value)>> \o rest[2],
                     rest[3] >>
         ELSE LET rest == MarshalRegs(args, i + 1, sc)
              IN  << <<Ins2("mov", arg_regs[i], ArgVal(args[i]))>> \o rest[1],
                     rest[2], rest[3] >>

RECURSIVE PushArgs(_, _, _)
\* the x86 argument loop over reversed(args): argument i down to 1
PushArgs(args, i, sc) ==
    IF i < 1 THEN <<(<<>>), (<<>>), sc>>
    ELSE IF args[i].type = "STRING"
         THEN LET rest == PushArgs(args, i - 1, sc + 1)
              IN  << <<Ins1("push", StrLabel(sc))>> \o rest[1],
                     <<DataEntry(sc, args[i].value)>> \o rest[2],
                     rest[3] >>
         ELSE LET rest == PushArgs(args, i - 1, sc)
              IN  << <<Ins1("push", ArgVal(args[i]))>> \o rest[1],
                     rest[2], rest[3] >>

CallIns(target) == [op |-> "call", target |-> target]

AddEsp(n) == [op |-> "add_esp", n |-> n]

\* generate_print: <<lines, data entries, string_counter>>
generate_print(args, b, sc) ==
    IF args = <<>> THEN <<(<<>>), (<<>>), sc>>
    ELSE LET arg == args[1]
             isStr == arg.type = "STRING"
             target == IF isStr THEN "_print_string" ELSE "_print_number"
             val == IF isStr THEN StrLabel(sc) ELSE ArgVal(arg)
         IN  << IF b = 64
                THEN <<Ins2(IF isStr THEN "lea" ELSE "mov", "rcx", val),
                       CallIns(target)>>
                ELSE <<Ins1("push", val), CallIns(target), AddEsp(4)>>,
                IF isStr THEN <<DataEntry(sc, arg.value)>> ELSE <<>>,
                IF isStr THEN sc + 1 ELSE sc >>

\* the newline call generate_call adds for println (codegen.py 912-919)
PrintlnTail(b) ==
    IF b = 64
    THEN <<Ins2("lea", "rcx", "_newline_str"), CallIns("_print_string")>>
    ELSE <<Ins1("push", "_newline_str"), CallIns("_print_string"), AddEsp(4)>>

generate_scan(args, b) ==
    IF args = <<>> THEN <<>>
    ELSE LET buffer == args[1].value
             buffer_size == IF Len(args) > 1 THEN args[2].value ELSE "256"
         IN  IF b = 64
             THEN <<Ins2("lea", "rcx", buffer), Ins2("mov", "rdx", buffer_size),
                    CallIns("_scan_string")>>
             ELSE <<Ins1("push", buffer_size), Ins1("push", buffer),
                    CallIns("_scan_string"), AddEsp(8)>>

generate_scanint(args, b) ==
    IF args = <<>> THEN <<>>
    ELSE IF b = 64
         THEN <<Ins2("lea", "rcx", args[1].value), CallIns("_scanint")>>
         ELSE <<Ins1("push", args[1].value), CallIns("_scanint"), AddEsp(4)>>

\* generate_stdlib_call: <<lines, data entries, string_counter>>
generate_stdlib_call(name, args, b, sc) ==
    IF b = 64
    THEN LET m == MarshalRegs(args, 1, sc)
         IN  <<m[1] \o <<CallIns("_" \o name)>>, m[2], m[3]>>
    ELSE LET m == PushArgs(args, Len(args), sc)
         IN  << m[1] \o <<CallIns("_" \o name)>>
                     \o (IF args # <<>> THEN <<AddEsp(4 * Len(args))>> ELSE <<>>),
                m[2], m[3] >>

\* UserCall with the stack fix-up emitted whatever the argument count
UserCallAlwaysFixup(name, args, b, sc) ==
    LET note == IF args # <<>> THEN <<[op |-> "comment", text |-> "Call"]>> ELSE <<>>
    IN  IF b = 64
        THEN LET m == MarshalRegs(args, 1, sc)
             IN  <<note \o m[1] \o <<CallIns(name)>>, m[2], m[3]>>
        ELSE LET m == PushArgs(args, Len(args), sc)
             IN  << note \o m[1] \o <<CallIns("_" \o name)>>
                      \o <<AddEsp(4 * Len(args))>>,
                    m[2], m[3] >>

\* the user-defined branch of generate_call (codegen.py 927-967)
UserCall(name, args, b, sc) ==
    LET note == IF args # <<>> THEN <<[op |-> "comment", text |-> "Call"]>> ELSE <<>>
    IN  IF b = 64
        THEN LET m == MarshalRegs(args, 1, sc)
             IN  <<note \o m[1] \o <<CallIns(name)>>, m[2], m[3]>>
        ELSE LET m == PushArgs(args, Len(args), sc)
             IN  << note \o m[1] \o <<CallIns("_" \o name)>>
                      \o (IF args # <<>> THEN <<AddEsp(4 * Len(args))>> ELSE <<>>),
                    m[2], m[3] >>

\* dispatch of generate_call on the callee name (codegen.py 908-967)
CallBody(name, args, b, sc) ==
    CASE name = "print"   -> generate_print(args, b, sc)
      [] name = "println" ->
            LET g == generate_print(args, b, sc)
            IN  <<g[1] \o PrintlnTail(b), g[2], g[3]>>
      [] name = "scan"    -> <<generate_scan(args, b), <<>>, sc>>
      [] name = "scanint" -> <<generate_scanint(args, b), <<>>, sc>>
      [] name \in StdlibCallNames -> generate_stdlib_call(name, args, b, sc)
      [] OTHER -> UserCall(name, args, b, sc)

Call(name, args) ==
    /\ CanRead
    /\ LET body == CallBody(name, args, bits, string_counter)
       IN  /\ output' = output \o <<GenStart(block_counter, line)>> \o body[1]
                               \o <<GenEnd(block_counter, line)>>
           /\ data_section' = data_section \o body[2]
           /\ string_counter' = body[3]
    /\ stdlib_used' = stdlib_used \cup {name}
                      \cup (IF name = "println" THEN {"print"} ELSE {})
    /\ calllog' = Append(calllog, [id |-> block_counter, name |-> name,
                                   nargs |-> Len(args), bits |-> bits])
    /\ block_counter' = block_counter + 1
    /\ line' = line + 1
    /\ UNCHANGED <<bits, reg_pool, label_counter, loop_stack, register_map,
                   functions, current_function, frames, status, iflog,
                   forlog, runVars, runs, pipeVars>>

\* a call whose '(' is never closed: the argument loop advances over every
\* remaining token, so the call and each open construct end without a
\* current token
CallUnclosed(name, args) ==
    /\ CanRead
    /\ LET body == CallBody(name, args, bits, string_counter)
       IN  /\ output' = output \o <<GenStart(block_counter, line)>> \o body[1]
                               \o <<GenEnd(block_counter, line)>>
           /\ data_section' = data_section \o body[2]
           /\ string_counter' = body[3]
    /\ stdlib_used' = stdlib_used \cup {name}
                      \cup (IF name = "println" THEN {"print"} ELSE {})
    /\ calllog' = Append(calllog, [id |-> block_counter, name |-> name,
                                   nargs |-> Len(args), bits |-> bits])
    /\ block_counter' = block_counter + 1
    /\ status' = "eof"
    /\ UNCHANGED <<bits, reg_pool, label_counter, loop_stack, register_map,
                   functions, current_function, frames, line, iflog,
                   forlog, runVars, runs, pipeVars>>

(***************************************************************************)
(* generate(): the `bits` directive and the end of the token list          *)
(***************************************************************************)
\* set_bits, called before generate() or by generate() on `bits <n>`
SetBits(b) ==
    /\ CanRead
    /\ frames = <<>>
    /\ bits' = b
    /\ line' = line + 1
    /\ UNCHANGED <<reg_pool, output, label_counter, block_counter,
                   string_counter, data_section, stdlib_used, loop_stack,
                   register_map, functions, current_function, frames, status,
                   iflog, calllog, forlog, runVars, runs, pipeVars>>

\* 'section .text' in the joined output (no ASM line of the model holds one)
HasTextSection == \E k \in DOMAIN output : output[k].op = "section_text"

\* index of the last emitted line that starts with `bits ` (no line of the
\* model starts with `global ` or `default rel`), 0 when there is none
LastDirective ==
    LET dirs == {k \in DOMAIN output :
                    /\ output[k].op = "asm"
                    /\ Len(strip(output[k].words)) >= 2
                    /\ Lower(strip(output[k].words)[1]) = "bits"
                    /\ strip(output[k].words)[2] = " "}
    IN  IF dirs = {} THEN 0
        ELSE CHOOSE k \in dirs : \A j \in dirs : j <= k

\* EOF: the post-processing of generate() (codegen.py 83-112)
Finish ==
    /\ status \in {"gen", "eof"}
    /\ frames = <<>>
    /\ output' = IF HasTextSection THEN output
                 ELSE SubSeq(output, 1, LastDirective)
                      \o <<[op |-> "section_text"]>>
                      \o SubSeq(output, LastDirective + 1, Len(output))
    /\ status' = "done"
    /\ UNCHANGED <<bits, reg_pool, label_counter, block_counter, string_counter,
                   data_section, stdlib_used, loop_stack, register_map,
                   functions, current_function, frames, line, iflog, calllog,
                   forlog, runVars, runs, pipeVars>>

(***************************************************************************)
(* StandardLibrary: the catalogue built by _init_windows (the target        *)
(* Compiler constructs) and get_dependencies.  An entry's code text is      *)
(* represented by the entry's name; `code` tells whether it is non-empty.   *)
(***************************************************************************)
Entry(code, requires, data, bss, externs) ==
    [code |-> code, requires |-> requires, data |-> data, bss |-> bss,
     externs |-> externs]

Plain == Entry(TRUE, <<>>, <<>>, <<>>, {})

CatalogueNames ==
    {"initstdio", "print", "println", "scan", "strlen", "scanint", "strcmp",
     "strcat", "abs", "min", "max", "pow", "arraysum", "arrayfill",
     "arraycopy", "memset", "memcpy", "rand", "sleep"}

Catalogue ==
    [n \in CatalogueNames |->
        CASE n = "initstdio" ->
                Entry(TRUE, <<>>, <<>>,
                      <<"_stdout_handle resq 1", "_stdin_handle resq 1">>,
                      {"GetStdHandle"})
          [] n = "print"   -> Entry(TRUE, <<>>, <<>>, <<>>, {"printf"})
          [] n = "println" ->
                Entry(FALSE, <<"print">>, <<"_newline_str db 10, 0">>, <<>>, {})
          [] n = "scan"    ->
                Entry(TRUE, <<"initstdio">>, <<>>, <<"_bytes_read resd 1">>,
                      {"ReadConsoleA", "sscanf"})
          [] n = "rand"    -> Entry(TRUE, <<>>, <<>>, <<>>, {"rand"})
          [] n = "sleep"   -> Entry(TRUE, <<>>, <<>>, <<>>, {"Sleep"})
          [] OTHER         -> Plain]

EmptyDeps ==
    [code |-> <<>>, data |-> <<>>, bss |-> <<>>, externs |-> {},
     processed |-> {}, visits |-> <<>>]

RECURSIVE process_function(_, _)
RECURSIVE ProcessEach(_, _, _)

\* the loop `for x in names: process_function(x)` from element i on
ProcessEach(names, i, acc) ==
    IF i > Len(names) THEN acc
    ELSE ProcessEach(names, i + 1, process_function(names[i], acc))

\* process_function nested in get_dependencies
process_function(func_name, acc) ==
    IF func_name \in acc.processed \/ func_name \notin DOMAIN Catalogue
    THEN acc
    ELSE LET func_data == Catalogue[func_name]
             marked == [acc EXCEPT !.processed = @ \cup {func_name},
                                   !.visits = Append(@, func_name)]
             after  == ProcessEach(func_data.requires, 1, marked)
         IN  [after EXCEPT
                 !.code = IF func_data.code THEN Append(@, func_name) ELSE @,
                 !.data = @ \o func_data.data,
                 !.bss = @ \o func_data.bss,
                 !.externs = @ \cup func_data.externs]

\* get_dependencies when the set used_functions is iterated in `order`
get_dependencies(order) == ProcessEach(order, 1, EmptyDeps)

\* the orders in which a set can be iterated
Orders(S) ==
    {o \in [1..Cardinality(S) -> S] :
        \A a, b \in 1..Cardinality(S) : a # b => o[a] # o[b]}

\* Compiler.build_assembly resolving the used set of a finished generation;
\* a set of str is iterated in an order that differs from process to process
Resolve(order) ==
    /\ status = "done"
    /\ runs' = Append(runs, get_dependencies(order))
    /\ UNCHANGED <<genVars, runVars, pipeVars>>

(***************************************************************************)
(* Inputs fed to the generator                                             *)
(***************************************************************************)
LoopVars == {"i", "j", "r9"}

\* start and end literals of the loops that are executed
LoopBounds == { <<"0", "0">>, <<"0", "1">>, <<"1", "3">>, <<"2", "1">>,
                <<"2147483646", "2147483647">>, <<"2147483647", BigLit>> }

ParamLists == {<<>>, <<"a">>, <<"a", "b">>}

FuncNames == {"f"}

AsmLines == {<<"nop">>}

Conds == { <<Reg("rax"), "EQ", Num("0")>>,
           <<Num("1"), "EQ", Num("1")>>,
           <<Num("1"), "EQ", Num("2")>>,
           <<Num("1"), "LT", Reg("rax")>> }

IfConds == { <<Reg("rax"), "EQ", Num("0")>>,
             <<Num("1"), "EQ", Num("1")>>,
             <<Num("2"), "LT", Num("1")>> }

ArgLists == { <<>>, <<Num("1")>>, <<Str("hi")>>,
              <<Num("1"), Num("2"), Num("3")>> }

Callees == {"foo", "print", "println", "scan", "scanint", "strlen"}

(***************************************************************************)
(* Reading the emitted output                                              *)
(***************************************************************************)
\* index of the start / end marker of block id, 0 when not emitted
StartIdx(id) ==
    IF \E k \in DOMAIN output : output[k].op = "gen_start" /\ output[k].id = id
    THEN CHOOSE k \in DOMAIN output : output[k].op = "gen_start" /\ output[k].id = id
    ELSE 0

EndIdx(id) ==
    IF \E k \in DOMAIN output : output[k].op = "gen_end" /\ output[k].id = id
    THEN CHOOSE k \in DOMAIN output : output[k].op = "gen_end" /\ output[k].id = id
    ELSE 0

BlockIds == {output[k].id : k \in {j \in DOMAIN output : output[j].op = "gen_start"}}

\* line k lies strictly inside block id
Inside(k, id) ==
    /\ StartIdx(id) # 0 /\ StartIdx(id) < k
    /\ EndIdx(id) = 0 \/ k < EndIdx(id)

\* number of blocks open around line k
Depth(k) ==
    Cardinality({j \in 1..(k - 1) : output[j].op = "gen_start"})
    - Cardinality({j \in 1..(k - 1) : output[j].op = "gen_end"})

\* lines that belong to block id itself and to no block nested in it
OwnLines(id) ==
    LET s == StartIdx(id)
        e == IF EndIdx(id) = 0 THEN Len(output) + 1 ELSE EndIdx(id)
        d == Depth(s)
    IN  IF s = 0 THEN {}
        ELSE {k \in (s + 1)..(e - 1) :
                /\ output[k].op \notin {"gen_start", "gen_end"}
                /\ Depth(k) = d + 1}

Own(k, id) == k \in OwnLines(id)

\* blocks that are function bodies: the marker is followed by the label
FuncBlockIds ==
    {id \in BlockIds :
        /\ StartIdx(id) < Len(output)
        /\ output[StartIdx(id) + 1].op = "flabel"}

\* the function body line k lies in: the innermost one, -1 at top level
EnclosingFunc(k) ==
    LET around == {id \in FuncBlockIds : Inside(k, id)}
    IN  IF around = {} THEN -1
        ELSE CHOOSE id \in around :
                \A other \in around : StartIdx(other) <= StartIdx(id)

IsJump(l) == l.op = "jmp" \/ l.op \in JccOps

MarshalOps == {"mov", "lea", "push"}

(***************************************************************************)
(* Execution of the emitted lines: the x86 semantics of the instructions   *)
(* generate_for and the conditions emit (mov, cmp, jcc, jmp, inc on 32-bit *)
(* registers); markers, labels and the model's ASM lines do nothing        *)
(***************************************************************************)
MaxInt32 == 2147483647

MinInt32 == -MaxInt32 - 1

\* value of an operand text: a literal or the content of a register
\* a literal as the assembler encodes it in a 32-bit immediate operand: its
\* value modulo 2^32, read as a signed dword by cmp / jge
Imm32(text) == IF text = BigLit THEN MinInt32 ELSE NumVal[text]

Val(text) ==
    IF text \in DOMAIN NumVal \cup {BigLit} THEN Imm32(text)
    ELSE regs[Phys(text)]

Inc32(v) == IF v = MaxInt32 THEN MinInt32 ELSE v + 1

\* index of the line declaring label n
LabelIdx(n) ==
    IF \E k \in DOMAIN output : output[k].op = "label" /\ output[k].lbl = n
    THEN CHOOSE k \in DOMAIN output : output[k].op = "label" /\ output[k].lbl = n
    ELSE 0

\* whether a conditional jump is taken after cmp a, b (signed)
Taken(cc, a, b) ==
    CASE cc = "jne" -> a # b
      [] cc = "je"  -> a = b
      [] cc = "jge" -> a >= b
      [] cc = "jle" -> a <= b
      [] cc = "jg"  -> a > b
      [] cc = "jl"  -> a < b

\* the for-loop whose header line at offset off from its marker is line k
ForAt(k, off) == {x \in DOMAIN forlog : StartIdx(forlog[x].id) + off = k}

RunStart ==
    /\ status = "done"
    /\ pc = 0
    /\ pc' = 1
    /\ UNCHANGED <<genVars, regs, flags, entries, entry, runs, pipeVars>>

RunStep ==
    /\ status = "done"
    /\ pc \in DOMAIN output
    /\ LET l == output[pc]
       IN  /\ pc' = IF l.op = "jmp" \/ (l.op \in JccOps /\ Taken(l.op, flags[1], flags[2]))
                    THEN LabelIdx(l.lbl)
                    ELSE pc + 1
           /\ regs' = CASE l.op = "mov" -> MapPut(regs, Phys(l.dst), Val(l.src))
                        [] l.op = "inc" -> MapPut(regs, Phys(l.dst), Inc32(Val(l.dst)))
                        [] OTHER -> regs
           /\ flags' = IF l.op = "cmp" THEN <<Val(l.dst), Val(l.src)>> ELSE flags
           /\ entries' =
                 IF l.op = "mov" /\ ForAt(pc, 1) # {}
                 THEN LET x == CHOOSE y \in ForAt(pc, 1) : TRUE
                      IN  MapPut(entries, forlog[x].id, <<>>)
                 ELSE IF l.op \in JccOps /\ ForAt(pc, 4) # {}
                         /\ ~Taken(l.op, flags[1], flags[2])
                 THEN LET x == CHOOSE y \in ForAt(pc, 4) : TRUE
                      IN  MapPut(entries, forlog[x].id,
                                 Append(entries[forlog[x].id],
                                        Val(forlog[x].loop_reg)))
                 ELSE entries
    /\ UNCHANGED <<genVars, entry, runs, pipeVars>>

(***************************************************************************)
(* Specifications                                                          *)
(***************************************************************************)
\* the whole generator
Next ==
    \/ \E v \in LoopVars : ForOpen(v, "0", "2")
    \/ EndFor
    \/ \E n \in FuncNames, ps \in ParamLists : FuncOpen(n, ps)
    \/ EndFunc
    \/ \E c \in Conds : IfOpen(c[1], c[2], c[3])
    \/ \E c \in Conds : Elif(c[1], c[2], c[3])
    \/ Else
    \/ SkipAfterElse
    \/ EndIf
    \/ \E c \in Conds : WhileOpen(c[1], c[2], c[3])
    \/ EndWhile
    \/ Break
    \/ Continue
    \/ Return
    \/ \E w \in AsmLines : AsmLine(w)
    \/ \E n \in Callees, a \in ArgLists : Call(n, a)
    \/ \E b \in {32, 64} : SetBits(b)
    \/ Finish

Spec == Init /\ [][Next]_vars

\* register allocation: loops, functions with parameters, calls
NextAlloc ==
    \/ \E v \in LoopVars : ForOpen(v, "0", "2")
    \/ EndFor
    \/ \E n \in FuncNames, ps \in ParamLists : FuncOpen(n, ps)
    \/ EndFunc
    \/ \E a \in ArgLists : Call("foo", a)
    \/ Finish

SpecAlloc == Init /\ [][NextAlloc]_vars

\* loops, functions and the jumps out of loops
NextFlow ==
    \/ \E v \in {"i"} : ForOpen(v, "0", "2")
    \/ EndFor
    \/ WhileOpen(Reg("rax"), "LT", Num("3"))
    \/ EndWhile
    \/ FuncOpen("f", <<>>)
    \/ EndFunc
    \/ Break
    \/ Continue
    \/ Return
    \/ Finish

SpecFlow == Init /\ [][NextFlow]_vars

\* conditionals
NextIf ==
    \/ \E c \in IfConds : IfOpen(c[1], c[2], c[3])
    \/ \E c \in IfConds : Elif(c[1], c[2], c[3])
    \/ Else
    \/ SkipAfterElse
    \/ EndIf
    \/ Finish

SpecIf == Init /\ [][NextIf]_vars

\* calls in both modes
NextCall ==
    \/ \E b \in {32, 64} : line <= MaxCalls /\ SetBits(b)
    \/ \E n \in Callees, a \in ArgLists : line <= MaxCalls /\ Call(n, a)
    \/ Finish

SpecCall == Init /\ [][NextCall]_vars

\* for-loops with a body of ASM lines, continue and inner loops, generated
\* and then executed
NextLoop ==
    \/ \E b \in LoopBounds : line <= MaxLoopLines /\ ForOpen("i", b[1], b[2])
    \/ EndFor
    \/ \E w \in AsmLines : line <= MaxLoopLines /\ AsmLine(w)
    \/ line <= MaxLoopLines /\ Continue
    \/ Finish
    \/ RunStart
    \/ RunStep

SpecLoop == Init /\ [][NextLoop]_vars

\* calls of helpers, then the resolution of the used set by each run
NextDeps ==
    \/ \E n \in HelperNames \cup {"foo"} : line <= MaxCalls /\ Call(n, <<>>)
    \/ Finish
    \/ \E o \in Orders(stdlib_used) : Len(runs) < MaxRuns /\ Resolve(o)

SpecDeps == Init /\ [][NextDeps]_vars

(***************************************************************************)
(* Claims                                                                  *)
(***************************************************************************)

\* C1: no two live names of register_map share a physical register (r9d
\* counts as r9) while at most 9 names are live in 64-bit mode.
C1_NoSharedRegister ==
    (bits = 64 /\ Cardinality(DOMAIN register_map) <= Len(base_prefs)) =>
        \A n1, n2 \in DOMAIN register_map :
            n1 # n2 => Phys(register_map[n1]) # Phys(register_map[n2])

\* frames of the loops that are open, outermost first
OpenFors == {k \in DOMAIN frames : frames[k].kind = "for"}

\* C2: with no function parameters involved, the loop registers of the
\* simultaneously open for-loops (depth at most 9) are pairwise distinct
\* physical registers, also when a loop variable is spelt as a register.
C2_LoopRegsDistinct ==
    (bits = 64 /\ functions = {} /\ Cardinality(OpenFors) <= Len(base_prefs)) =>
        \A k1, k2 \in OpenFors :
            k1 # k2 => Phys(frames[k1].loop_reg) # Phys(frames[k2].loop_reg)

\* names whose scope is open: variables of open loops, parameters of open
\* functions
LiveNames ==
    {frames[k].var : k \in OpenFors}
    \cup UNION {Range(frames[k].params) :
                   k \in {j \in DOMAIN frames : frames[j].kind = "func"}}

\* the generator has just emitted the block of a `call`
JustCalled ==
    /\ status = "gen"
    /\ calllog # <<>>
    /\ output # <<>>
    /\ Last(output).op = "gen_end"
    /\ Last(output).id = Last(calllog).id

\* registers written by the lines of block id
BlockWrites(id) ==
    {Phys(output[k].dst) :
        k \in {j \in OwnLines(id) : output[j].op \in {"mov", "lea"}}}

\* C3: no instruction emitted for a call writes the physical register that
\* holds a name live at the call.
C3_CallKeepsLiveRegs ==
    (bits = 64 /\ JustCalled) =>
        \A n \in LiveNames \cap DOMAIN register_map :
            Phys(register_map[n]) \notin BlockWrites(Last(calllog).id)

\* C4: the label a break / continue jumps to is emitted inside the same
\* function body as the jump.
C4_JumpTargetInSameFunction ==
    status = "done" =>
        \A k \in DOMAIN output :
            (output[k].op = "jmp" /\ output[k].by \in {"break", "continue"}) =>
                \E t \in DOMAIN output :
                    /\ output[t].op = "label"
                    /\ output[t].lbl = output[k].lbl
                    /\ EnclosingFunc(t) = EnclosingFunc(k)

\* number of label lines generate_if emitted for block id itself
OwnLabels(id) ==
    Cardinality({k \in OwnLines(id) : output[k].op = "label"})

\* C5: an if block with N elif branches has N+2 label lines of its own when
\* it has an elif or an else, and 1 otherwise.
C5_IfLabelCount ==
    \A x \in DOMAIN iflog :
        iflog[x].closed =>
            OwnLabels(iflog[x].id) =
                IF iflog[x].nelif > 0 \/ iflog[x].has_else
                THEN iflog[x].nelif + 2
                ELSE 1

C5_Witness ==
    \E x \in DOMAIN iflog :
        /\ iflog[x].closed
        /\ iflog[x].nelif = 2
        /\ iflog[x].has_else
        /\ OwnLabels(iflog[x].id) = 4

\* lines of the condition of the if logged at x: between the start marker
\* and the body
HeaderLines(x) ==
    {k \in DOMAIN output :
        /\ StartIdx(iflog[x].id) < k
        /\ k <= StartIdx(iflog[x].id) + iflog[x].hdr}

\* C7: an if on two numeric literals emits no cmp; when the comparison is
\* true it emits no jump before the body, when false exactly one
\* unconditional jmp.
C7_FoldedIfHeader ==
    \A x \in DOMAIN iflog :
        BothNumeric(iflog[x].lhs, iflog[x].rhs) =>
            /\ \A k \in HeaderLines(x) : output[k].op # "cmp"
            /\ IF Folded(iflog[x].lhs, iflog[x].op, iflog[x].rhs)
               THEN \A k \in HeaderLines(x) : ~IsJump(output[k])
               ELSE /\ Cardinality({k \in HeaderLines(x) : IsJump(output[k])}) = 1
                    /\ \A k \in HeaderLines(x) :
                          IsJump(output[k]) => output[k].op = "jmp"

\* lines of the call logged at x
CallLines(x) == OwnLines(calllog[x].id)

\* C8: a call with zero arguments emits exactly one call instruction, no
\* argument marshalling and, in 32-bit mode, no add esp.
C8_BareCall ==
    \A x \in DOMAIN calllog :
        calllog[x].nargs = 0 =>
            /\ Cardinality({k \in CallLines(x) : output[k].op = "call"}) = 1
            /\ \A k \in CallLines(x) : output[k].op \notin MarshalOps
            /\ \A k \in CallLines(x) : output[k].op # "add_esp"

\* the lines of the call logged at x, in the order emitted
CallSeq(x) ==
    SubSeq(output, StartIdx(calllog[x].id) + 1, EndIdx(calllog[x].id) - 1)

\* number of lines of sequence q whose op is in ops
CountOps(q, ops) == Cardinality({k \in DOMAIN q : q[k].op \in ops})

\* C8 (amended): a call with zero arguments of a user-defined function or of
\* a helper handed to generate_stdlib_call emits exactly one call
\* instruction, no argument marshalling and, in 32-bit mode, no add esp;
\* print, scan and scanint with zero arguments emit no instruction; println
\* with zero arguments emits only its newline sequence: one load or push of
\* _newline_str, one call of _print_string and, in 32-bit mode, add esp 4.
C8_BareCallAmended ==
    \A x \in DOMAIN calllog :
        calllog[x].nargs = 0 =>
            LET q == CallSeq(x)
                b == calllog[x].bits
            IN  CASE calllog[x].name \in {"print", "scan", "scanint"} ->
                        q = <<>>
                  [] calllog[x].name = "println" ->
                        /\ Len(q) = IF b = 32 THEN 3 ELSE 2
                        /\ q[1].op = IF b = 32 THEN "push" ELSE "lea"
                        /\ (IF b = 32 THEN q[1].dst ELSE q[1].src) = "_newline_str"
                        /\ q[2] = [op |-> "call", target |-> "_print_string"]
                        /\ b = 32 => q[3] = [op |-> "add_esp", n |-> 4]
                  [] OTHER ->
                        /\ CountOps(q, {"call"}) = 1
                        /\ CountOps(q, MarshalOps) = 0
                        /\ CountOps(q, {"add_esp"}) = 0

\* a zero-argument call of a user-defined function in 32-bit mode
C8_Witness ==
    \E x \in DOMAIN calllog :
        /\ calllog[x].nargs = 0 /\ calllog[x].bits = 32
        /\ calllog[x].name = "foo"
        /\ CallSeq(x) = <<[op |-> "call", target |-> "_foo"]>>

\* the integer e - 1 for the literal text e
EndPred(e) == IF e = BigLit THEN MaxInt32 ELSE NumVal[e] - 1

\* the values s, s+1, ..., last
Upto(s, last) == [k \in 1..(IF last >= s THEN last - s + 1 ELSE 0) |-> s + k - 1]

\* the loop logged at x has been left by the machine
LoopLeft(x) == status = "done" /\ pc # 0 /\ pc = LabelIdx(forlog[x].l_end)

Count(q, x) == Cardinality({k \in DOMAIN q : q[k] = x})

\* names reachable from h through `requires`, h included
Closure(h) ==
    LET step(S) == S \cup UNION {Range(Catalogue[n].requires) :
                                    n \in S \cap DOMAIN Catalogue}
    IN  step(step(step({h})))

\* the result holds the entry of name n exactly once
HeldOnce(r, n) ==
    /\ n \in DOMAIN Catalogue
    /\ Count(r.visits, n) = 1
    /\ Catalogue[n].code => Count(r.code, n) = 1

\* C9: for every recognised helper in the used set, the result of
\* get_dependencies holds its entry and the entry of every name of its
\* requires closure exactly once.
C9_ClosureHeldOnce ==
    \A x \in DOMAIN runs :
        \A h \in stdlib_used \cap HelperNames :
            \A n \in Closure(h) : HeldOnce(runs[x], n)

\* C10: two runs on the same source resolve the used set to the same code
\* text, data and bss sequences.
C10_RunsAgree ==
    \A x, y \in DOMAIN runs :
        /\ runs[x].code = runs[y].code
        /\ runs[x].data = runs[y].data
        /\ runs[x].bss = runs[y].bss

\* frames above frame k that bind the name n again
Rebinds(k, n) ==
    {j \in DOMAIN frames :
        /\ j > k
        /\ \/ frames[j].kind = "for" /\ frames[j].var = n
           \/ frames[j].kind = "func" /\ n \in Range(frames[j].params)}

\* C20: every register_map entry made on entry to a scope is removed when
\* the scope exits: register_map is empty when generate() has finished, and
\* while a loop is open and no inner scope that binds its variable's name is
\* open, the variable is still mapped to the loop's register.
C20_ScopeExitClearsMap ==
    /\ status = "done" => DOMAIN register_map = {}
    /\ \A k \in OpenFors :
          Rebinds(k, frames[k].var) = {} =>
              /\ frames[k].var \in DOMAIN register_map
              /\ register_map[frames[k].var] = frames[k].loop_reg

\* the lines a step has appended to output
Emitted == SubSeq(output', Len(output) + 1, Len(output'))

\* C13: the lines the generator emits for a construct lie between a
\* GEN_START and a GEN_END line of one block id: a step that opens a
\* construct starts with the GEN_START of the block it opens, a step that
\* closes one ends with the GEN_END of that block, and a construct handled
\* by one step (call, return, break, continue) emits both around its lines.
C13_ConstructsWrapped ==
    [][(status = "gen" /\ status' = "gen" /\ Len(output') > Len(output)) =>
          IF Len(frames') > Len(frames)
          THEN /\ Emitted[1].op = "gen_start"
               /\ Emitted[1].id = Last(frames').id
          ELSE IF Len(frames') < Len(frames)
          THEN /\ Last(Emitted).op = "gen_end"
               /\ Last(Emitted).id = Last(frames).id
          ELSE /\ Emitted[1].op = "gen_start"
               /\ Last(Emitted).op = "gen_end"
               /\ Last(Emitted).id = Emitted[1].id]_vars

(***************************************************************************)
(* Compiler.build_assembly: the text written to the output file, one       *)
(* record per line.  The sorted extern lines are one record holding the    *)
(* set; a run of stdlib code lines without a `call` is one record holding  *)
(* its length.                                                             *)
(***************************************************************************)
Txt(s) == [op |-> "text", text |-> s]

Seg(n, h) == [op |-> "stdlib", name |-> n, lines |-> h]

\* the 'code' text of a catalogue entry: its `call` lines and the runs of
\* other lines between them
CodeOf(n) ==
    CASE n = "initstdio" ->
            <<Seg(n, 5), CallIns("GetStdHandle"), Seg(n, 2),
              CallIns("GetStdHandle"), Seg(n, 4)>>
      [] n = "print" ->
            <<Seg(n, 6), CallIns("printf"), Seg(n, 11), CallIns("printf"),
              Seg(n, 11), CallIns("printf"), Seg(n, 4)>>
      [] n = "scan" ->
            <<Seg(n, 13), CallIns("ReadConsoleA"), Seg(n, 34),
              CallIns("_scan_string"), Seg(n, 3), CallIns("sscanf"), Seg(n, 5)>>
      [] n = "scanint" ->
            <<Seg(n, 8), CallIns("_scan_string"), Seg(n, 3), CallIns("sscanf"),
              Seg(n, 2)>>
      [] n = "rand"  -> <<Seg(n, 4), CallIns("rand"), Seg(n, 3)>>
      [] n = "sleep" -> <<Seg(n, 4), CallIns("Sleep"), Seg(n, 3)>>
      [] n = "strlen" -> <<Seg(n, 11)>>
      [] n = "strcmp" -> <<Seg(n, 19)>>
      [] n = "strcat" -> <<Seg(n, 23)>>
      [] n \in {"abs", "min", "max"} -> <<Seg(n, 7)>>
      [] n = "pow" -> <<Seg(n, 16)>>
      [] n = "arraysum" -> <<Seg(n, 11)>>
      [] n = "arrayfill" -> <<Seg(n, 10)>>
      [] n = "arraycopy" -> <<Seg(n, 12)>>
      [] n = "memset" -> <<Seg(n, 14)>>
      [] n = "memcpy" -> <<Seg(n, 16)>>
      [] OTHER -> <<>>

RECURSIVE JoinCode(_, _)
\* '\n\n'.join(code) of get_dependencies, from entry i on
JoinCode(names, i) ==
    IF i > Len(names) THEN <<>>
    ELSE CodeOf(names[i])
         \o (IF i < Len(names) THEN <<Txt("")>> ELSE <<>>)
         \o JoinCode(names, i + 1)

Banner(title) == <<Txt("; ---- rule ----"), Txt(title), Txt("; ---- rule ----")>>

DataLines(ds) == [k \in DOMAIN ds |-> [op |-> "data", entry |-> ds[k]]]

\* Compiler.build_assembly(code_lines, data_section, stdlib_used) with
\* deps the result of get_dependencies(stdlib_used)
build_assembly(code_lines, data, deps) ==
    LET user_has_own_sections ==
            \E k \in DOMAIN code_lines :
                \/ code_lines[k].op = "section_text"
                \/ code_lines[k].op = "flabel" /\ code_lines[k].name = "main" /\ k > 1
    IN  <<Txt("; ---- rule ----"), Txt("; Generated by Advanced Assembly Compiler v2.0"),
          Txt("; Target: Windows x64 (NASM)"), Txt("; ---- rule ----"), Txt("")>>
        \o <<Txt("; External dependencies"), Txt("extern ExitProcess")>>
        \o (IF deps.externs # {}
            THEN <<[op |-> "externs", names |-> deps.externs]>> ELSE <<>>)
        \o <<Txt("")>>
        \o Banner("; Data Section") \o <<Txt("section .data")>>
        \o (IF deps.data # <<>>
            THEN <<Txt("    ; Standard library data")>> \o DataLines(deps.data)
            ELSE <<>>)
        \o (IF data # <<>>
            THEN <<Txt("    ; User-defined strings")>> \o DataLines(data)
            ELSE <<>>)
        \o (IF deps.data = <<>> /\ data = <<>>
            THEN <<Txt("    ; No data")>> ELSE <<>>)
        \o <<Txt("")>>
        \o Banner("; BSS Section") \o <<Txt("section .bss")>>
        \o (IF deps.bss # <<>>
            THEN <<Txt("    ; Standard library variables")>> \o DataLines(deps.bss)
            ELSE <<Txt("    ; Define uninitialized variables here")>>)
        \o <<Txt("")>>
        \o Banner("; Code Section")
        \o (IF user_has_own_sections THEN <<>>
            ELSE <<Txt("section .text"), Txt("    global main"), Txt("")>>)
        \o (IF deps.code # <<>>
            THEN Banner("; Standard Library Functions")
                 \o JoinCode(deps.code, 1) \o <<Txt("")>>
            ELSE <<>>)
        \o (IF user_has_own_sections THEN code_lines
            ELSE Banner("; Main Program")
                 \o <<Txt("main:"), Txt("    ; User code begins")>>
                 \o code_lines
                 \o <<Txt("    ; User code ends"), Txt(""),
                      Txt("    ; Exit program"), Txt("    xor rcx, rcx"),
                      CallIns("ExitProcess")>>)

\* Compiler.compile after a generation that succeeded: build_assembly and
\* the write of its result
Build(order) ==
    /\ status = "done"
    /\ written = <<>>
    /\ written' = build_assembly(output, data_section, get_dependencies(order))
    /\ UNCHANGED <<genVars, runVars, runs, source, tokens, lexed, chk, merged,
                   comp>>

(***************************************************************************)
(* A compilation whose source is a text build_assembly produced            *)
(***************************************************************************)
\* number of file lines a record of the written text stands for
Height(rec) ==
    CASE rec.op = "stdlib"  -> rec.lines
      [] rec.op = "externs" -> Cardinality(rec.names)
      [] OTHER -> 1

RECURSIVE GenerateText(_, _, _, _)
\* Lexer and CodeGenerator.generate() over the written text from record k
\* on, which starts at file line ln, with block_counter = id: a line whose
\* first word is `call` is the only keyword line and makes a block; every
\* other line is an ASM_LINE token, skipped at top level
GenerateText(text, k, ln, id) ==
    IF k > Len(text) THEN <<>>
    ELSE IF text[k].op = "call"
         THEN <<GenStart(id, ln)>>
              \o CallBody(text[k].target, <<>>, 64, 0)[1]
              \o <<GenEnd(id, ln)>>
              \o GenerateText(text, k + 1, ln + 1, id + 1)
         ELSE GenerateText(text, k + 1, ln + Height(text[k]), id)

\* stdlib_used after that generation
UsedByText(text) ==
    UNION {{text[k].target}
              \cup (IF text[k].target = "println" THEN {"print"} ELSE {}) :
           k \in {j \in DOMAIN text : text[j].op = "call"}}

\* the text the second compilation writes when its used set is iterated
\* in `order`
Recompile(text, order) ==
    build_assembly(<<[op |-> "section_text"]>> \o GenerateText(text, 1, 1, 0),
                   <<>>, get_dependencies(order))

\* generation and build: calls and ASM lines, then the written text
NextBuild ==
    \/ \E n \in {"foo", "strlen", "print"}, a \in {<<>>, <<Str("hi")>>} :
          line <= MaxCalls /\ Call(n, a)
    \/ \E w \in AsmLines : line <= MaxCalls /\ AsmLine(w)
    \/ Finish
    \/ \E o \in Orders(stdlib_used) : Build(o)

SpecBuild == Init /\ [][NextBuild]_vars

\* C12: no GEN_START / GEN_END marker line is in the text the compiler
\* writes to the output file.
C12_NoMarkerWritten ==
    \A k \in DOMAIN written : written[k].op \notin {"gen_start", "gen_end"}

\* C15: compiling the written text again writes the same text (for some
\* order in which the second run's used set is iterated).
C15_Idempotent ==
    written # <<>> =>
        \E o \in Orders(UsedByText(written)) : Recompile(written, o) = written

(***************************************************************************)
(* Source text.  A line is the sequence of its atoms: " " is a run of      *)
(* white space, every other atom a run of non-blank characters; the line   *)
(* is their concatenation.  Prefix tests are made on whole atoms.          *)
(***************************************************************************)
RECURSIVE FirstWord(_)
\* ln.split()[0].lower() of a line without leading white space ('' if none)
FirstWord(ln) ==
    IF ln = <<>> \/ ln[1] = " " THEN ""
    ELSE Lower(ln[1]) \o FirstWord(Tail(ln))

\* s.lower().startswith(p) for some p of prefixes, s without leading space
StartsWith(ln, prefixes) == ln # <<>> /\ Lower(ln[1]) \in prefixes

\* the input file grows by one line
AddLine(ln, limit) ==
    /\ lexed = "no"
    /\ ~merged.done
    /\ comp.started = <<>>
    /\ Len(source) < limit
    /\ source' = Append(source, ln)
    /\ UNCHANGED <<genVars, runVars, runs, written, tokens, lexed, chk, merged,
                   comp>>

\* classes of str.isspace / isdigit / isalpha on the characters of the
\* sources that are given character by character
Digits == {"0", "1", "2", "3", "4", "5", "6", "7", "8", "9"}

HexDigits == Digits \cup {"a", "b", "c", "d", "e", "f", "A", "B", "C", "D", "E", "F"}

Letters == {"a", "b", "c", "d", "e", "f", "g", "h", "i", "j", "k", "l", "m",
            "n", "o", "p", "q", "r", "s", "t", "u", "v", "w", "x", "y", "z",
            "A", "B", "C", "D", "E", "F", "X"}

Punct == {" ", ";", "\"", "\\", "=", "!", "<", ">", ",", "(", ")", "[", "]",
          "+", "-", "*", "/", "%", "_", ".", ":"}

CharSet == Digits \cup Letters \cup Punct

\* whether a line is given character by character
InChars(ln) == ln # <<>> /\ \A k \in DOMAIN ln : ln[k] \in CharSet

\* the first line of the input file, given character by character, grows
\* by one character
AddChar(c, limit) ==
    /\ lexed = "no"
    /\ Len(source) = 1
    /\ InChars(source[1])
    /\ Len(source[1]) < limit
    /\ source' = <<Append(source[1], c)>>
    /\ UNCHANGED <<genVars, runVars, runs, written, tokens, lexed, chk, merged,
                   comp>>

(***************************************************************************)
(* Lexer                                                                   *)
(***************************************************************************)
keywords ==
    {"if", "elif", "else", "endif", "for", "endfor", "while", "endwhile",
     "break", "continue", "func", "endfunc", "return", "call", "var", "let"}

\* TokenType of a keyword
KeywordType(w) ==
    CASE w = "if" -> "IF" [] w = "elif" -> "ELIF" [] w = "else" -> "ELSE"
      [] w = "endif" -> "ENDIF" [] w = "for" -> "FOR" [] w = "endfor" -> "ENDFOR"
      [] w = "while" -> "WHILE" [] w = "endwhile" -> "ENDWHILE"
      [] w = "break" -> "BREAK" [] w = "continue" -> "CONTINUE"
      [] w = "func" -> "FUNC" [] w = "endfunc" -> "ENDFUNC"
      [] w = "return" -> "RETURN" [] w = "call" -> "CALL"
      [] w = "var" -> "VAR" [] w = "let" -> "LET"

Token(type, value, ln) == [type |-> type, value |-> value, line |-> ln]

\* the tokens the scanning loop of tokenize_line makes of one atom
AtomTokens(a, n) ==
    CASE Lower(a) \in keywords -> <<Token(KeywordType(Lower(a)), Lower(a), n)>>
      [] a \in {"rax", "rbx", "rcx", "r8", "r9"} -> <<Token("REGISTER", a, n)>>
      [] a \in {"0", "1", "2", "3", "32", "64"} -> <<Token("NUMBER", a, n)>>
      [] a = "\"hi\"" -> <<Token("STRING", "hi", n)>>
      [] a = "\"a.inc\"" -> <<Token("STRING", "a.inc", n)>>
      [] a = "==" -> <<Token("EQ", a, n)>>
      [] a = "<" -> <<Token("LT", a, n)>>
      [] a = "=" -> <<Token("ASSIGN", a, n)>>
      [] a = "," -> <<Token("COMMA", a, n)>>
      [] a = "0," -> <<Token("NUMBER", "0", n), Token("COMMA", ",", n)>>
      [] a = ".L0" -> <<Token("IDENTIFIER", "L0", n)>>
      [] a = ".L0:" -> <<Token("IDENTIFIER", "L0", n)>>
      [] a = "%%L0" -> <<Token("MODULO", "%", n), Token("MODULO", "%", n),
                         Token("IDENTIFIER", "L0", n)>>
      [] a = "%macro" -> <<Token("MODULO", "%", n),
                           Token("IDENTIFIER", "macro", n)>>
      [] a \in {"i", "f", "foo", "nop", "jmp", "mov", "m", "print", "bits"} ->
            <<Token("IDENTIFIER", a, n)>>
      [] OTHER -> <<>>

RECURSIVE Join(_)
\* the str made of a sequence of characters
Join(cs) == IF cs = <<>> THEN "" ELSE cs[1] \o Join(Tail(cs))

RECURSIVE Run(_, _, _)
\* while j < len(line) and line[j] in set: j += 1
Run(ln, j, set) == IF j <= Len(ln) /\ ln[j] \in set THEN Run(ln, j + 1, set) ELSE j

RECURSIVE StringEnd(_, _, _)
\* the loop that looks for the closing quote (lexer.py 122-133): its
\* index, Len(ln) + 1 when there is none
StringEnd(ln, j, escaped) ==
    IF j > Len(ln) THEN j
    ELSE IF escaped THEN StringEnd(ln, j + 1, FALSE)
    ELSE IF ln[j] = "\\" THEN StringEnd(ln, j + 1, TRUE)
    ELSE IF ln[j] = "\"" THEN j
    ELSE StringEnd(ln, j + 1, FALSE)

RECURSIVE Replace(_, _, _, _)
\* str.replace of the two-character text a b by r
Replace(cs, a, b, r) ==
    IF Len(cs) < 2 THEN cs
    ELSE IF cs[1] = a /\ cs[2] = b
         THEN <<r>> \o Replace(SubSeq(cs, 3, Len(cs)), a, b, r)
         ELSE <<cs[1]>> \o Replace(Tail(cs), a, b, r)

\* the five replace calls on the text between the quotes (lexer.py 137-139)
Unescape(cs) ==
    Replace(Replace(Replace(Replace(Replace(cs, "\\", "n", "\n"),
                                    "\\", "t", "\t"),
                            "\\", "r", "\r"),
                    "\\", "\"", "\""),
            "\\", "\\", "\\")

\* char_tokens and the two-character operators
CharTokenType(c) ==
    CASE c = "<" -> "LT" [] c = ">" -> "GT" [] c = "=" -> "ASSIGN"
      [] c = "," -> "COMMA" [] c = "(" -> "LPAREN" [] c = ")" -> "RPAREN"
      [] c = "[" -> "LBRACKET" [] c = "]" -> "RBRACKET" [] c = "+" -> "PLUS"
      [] c = "-" -> "MINUS" [] c = "*" -> "MULTIPLY" [] c = "/" -> "DIVIDE"
      [] c = "%" -> "MODULO" [] OTHER -> "none"

TwoCharType(c, d) ==
    CASE c = "=" /\ d = "=" -> "EQ" [] c = "!" /\ d = "=" -> "NE"
      [] c = "<" /\ d = "=" -> "LE" [] c = ">" /\ d = "=" -> "GE"
      [] OTHER -> "none"

RECURSIVE scan(_, _, _)
\* the while loop of tokenize_line from index i on (lexer.py 111-224) and
\* the closing NEWLINE, on a line given character by character
scan(ln, i, n) ==
    IF i > Len(ln) \/ ln[i] = ";"
    THEN [ok |-> TRUE, toks |-> <<Token("NEWLINE", "\n", n)>>]
    ELSE IF ln[i] = " " THEN scan(ln, i + 1, n)
    ELSE LET c == ln[i]
             more == i + 1 <= Len(ln)
             then(tok, j) ==
                 LET rest == scan(ln, j, n)
                 IN  [ok |-> rest.ok, toks |-> tok \o rest.toks]
         IN  IF c = "\""
             THEN LET j == StringEnd(ln, i + 1, FALSE)
                  IN  IF j <= Len(ln)
                      THEN then(<<Token("STRING",
                                        Join(Unescape(SubSeq(ln, i + 1, j - 1))),
                                        n)>>, j + 1)
                      ELSE [ok |-> FALSE, toks |-> <<>>]
             ELSE IF c \in Digits
             THEN LET j == IF c = "0" /\ more /\ ln[i + 1] \in {"x", "X"}
                           THEN Run(ln, i + 2, HexDigits)
                           ELSE IF c = "0" /\ more /\ ln[i + 1] \in {"b", "B"}
                           THEN Run(ln, i + 2, {"0", "1"})
                           ELSE Run(ln, i, Digits)
                  IN  then(<<Token("NUMBER", Join(SubSeq(ln, i, j - 1)), n)>>, j)
             ELSE IF more /\ TwoCharType(c, ln[i + 1]) # "none"
             THEN then(<<Token(TwoCharType(c, ln[i + 1]), c \o ln[i + 1], n)>>,
                       i + 2)
             ELSE IF CharTokenType(c) # "none"
             THEN then(<<Token(CharTokenType(c), c, n)>>, i + 1)
             ELSE IF c \in Letters \cup {"_"}
             THEN LET j == Run(ln, i, Letters \cup Digits \cup {"_"})
                      word == Join(SubSeq(ln, i, j - 1))
                  IN  then(<<IF Lower(word) \in keywords
                             THEN Token(KeywordType(Lower(word)), Lower(word), n)
                             ELSE IF Lower(word) \in LexRegisters
                             THEN Token("REGISTER", word, n)
                             ELSE Token("IDENTIFIER", word, n)>>, j)
             ELSE scan(ln, i + 1, n)

RECURSIVE tokenize_lineBare(_, _)
\* tokenize_line without the closing NEWLINE token
tokenize_lineBare(ln, n) ==
    IF ln = <<>> \/ ln[1] = ";"
    THEN [ok |-> TRUE, toks |-> <<>>]
    ELSE IF ln[1] = "\"hi"
         THEN [ok |-> FALSE, toks |-> <<>>]
         ELSE LET rest == tokenize_lineBare(Tail(ln), n)
              IN  [ok |-> rest.ok,
                   toks |-> IF ln[1] = " " THEN rest.toks
                            ELSE AtomTokens(ln[1], n) \o rest.toks]

RECURSIVE tokenize_line(_, _)
\* tokenize_line: [ok, toks]; ok is FALSE when SyntaxError is raised.  A
\* line given character by character is scanned as the code scans it; of a
\* line given word by word each word yields the tokens of AtomTokens
tokenize_line(ln, n) ==
    IF InChars(ln) THEN scan(ln, 1, n)
    ELSE IF ln = <<>> \/ ln[1] = ";"
    THEN [ok |-> TRUE, toks |-> <<Token("NEWLINE", "\n", n)>>]
    ELSE IF ln[1] = "\"hi"
         THEN [ok |-> FALSE, toks |-> <<>>]
         ELSE LET rest == tokenize_line(Tail(ln), n)
              IN  [ok |-> rest.ok,
                   toks |-> IF ln[1] = " " THEN rest.toks
                            ELSE AtomTokens(ln[1], n) \o rest.toks]

RECURSIVE tokenize(_, _, _)
\* the loop of Lexer.tokenize from line i on; in_macro tells whether the
\* inner loop over a macro body is running
tokenize(lines, i, in_macro) ==
    IF i > Len(lines)
    THEN [ok |-> TRUE, toks |-> <<Token("EOF", "", Len(lines) + 1)>>]
    ELSE LET original_line == lines[i]
             ln == strip(original_line)
             first_word == FirstWord(ln)
             asm == <<Token("ASM_LINE", original_line, i)>>
             high == tokenize_line(IF in_macro THEN original_line ELSE ln, i)
             this ==
                 IF in_macro
                 THEN IF StartsWith(ln, {"endmacro", "%endmacro"})
                      THEN [ok |-> TRUE, toks |-> asm, macro |-> FALSE]
                      ELSE [ok |-> high.ok, toks |-> high.toks, macro |-> TRUE]
                 ELSE IF ln = <<>> \/ ln[1] = ";"
                      THEN [ok |-> TRUE, toks |-> asm, macro |-> FALSE]
                 ELSE IF first_word \in {"macro", "%macro"}
                      THEN [ok |-> TRUE, toks |-> asm, macro |-> TRUE]
                 ELSE IF first_word \in {"%include", "include"}
                      THEN LET rest == strip(Tail(ln))
                               path == IF rest = <<>> THEN ""
                                       ELSE IF rest[1] = "\"a.inc\"" THEN "a.inc"
                                       ELSE rest[1]
                           IN  [ok |-> TRUE,
                                toks |-> <<Token("INCLUDE", path, i),
                                           Token("NEWLINE", "\n", i)>>,
                                macro |-> FALSE]
                 ELSE IF first_word \in keywords
                      THEN [ok |-> high.ok, toks |-> high.toks, macro |-> FALSE]
                 ELSE [ok |-> TRUE, toks |-> asm, macro |-> FALSE]
             rest == tokenize(lines, i + 1, this.macro)
         IN  IF this.ok /\ rest.ok
             THEN [ok |-> TRUE, toks |-> this.toks \o rest.toks]
             ELSE [ok |-> FALSE, toks |-> <<>>]

\* Lexer(source).tokenize(), called once as Compiler.compile does
Tokenize ==
    /\ lexed = "no"
    /\ source # <<>>
    /\ comp.started = <<>>
    /\ LET r == tokenize(source, 1, FALSE)
       IN  /\ tokens' = r.toks
           /\ lexed' = IF r.ok THEN "ok" ELSE "raised"
    /\ UNCHANGED <<genVars, runVars, runs, written, source, chk, merged, comp>>

\* lines of the sources that are tokenised
LexLines ==
    { <<"if", " ", "rax", " ", "==", " ", "0">>,
      <<" ", "EndIf">>,
      <<" ", "mov", " ", "rax", ",", " ", "1", " ", ";", " ", "c">>,
      <<>>,
      <<";", " ", "c">>,
      <<"%macro", " ", "m", " ", "0">>,
      <<"%endmacro">>,
      <<"call", " ", "print", " ", "\"hi">>,
      <<"%include", " ", "\"a.inc\"">> }

NextLex ==
    \/ \E ln \in LexLines : AddLine(ln, MaxSrcLines)
    \/ Tokenize

SpecLex == Init /\ [][NextLex]_vars

\* indices of the tokens made of source line i
TokensOfLine(i) == {k \in DOMAIN tokens : tokens[k].line = i}

\* C18: in the sequence tokenize returns, every input line has at least one
\* token, an ASM_LINE token holds its whole original line, the last token of
\* a line that was tokenised as a high-level line is a NEWLINE, and the
\* sequence ends with its only EOF token.
C18_TokenStream ==
    lexed = "ok" =>
        /\ \A i \in DOMAIN source : TokensOfLine(i) # {}
        /\ \A k \in DOMAIN tokens :
              tokens[k].type = "ASM_LINE" => tokens[k].value = source[tokens[k].line]
        /\ \A i \in DOMAIN source :
              (\E k \in TokensOfLine(i) : tokens[k].type # "ASM_LINE") =>
                  \E k \in TokensOfLine(i) :
                      /\ tokens[k].type = "NEWLINE"
                      /\ \A j \in TokensOfLine(i) : j <= k
        /\ tokens # <<>>
        /\ Last(tokens).type = "EOF"
        /\ Cardinality({k \in DOMAIN tokens : tokens[k].type = "EOF"}) = 1

\* an indented ASM line and a blank line inside a macro body were tokenised
C18_Witness ==
    /\ lexed = "ok"
    /\ source = << <<" ", "mov", " ", "rax", ",", " ", "1", " ", ";", " ", "c">>,
                   <<"%macro", " ", "m", " ", "0">>, <<>> >>
    /\ tokens[1].type = "ASM_LINE"
    /\ tokens[3].type = "NEWLINE"

(***************************************************************************)
(* SyntaxChecker                                                           *)
(***************************************************************************)
\* the opener a closing or middle keyword is checked against
OpenerOf(type) ==
    CASE type \in {"ELIF", "ELSE", "ENDIF"} -> "if"
      [] type = "ENDFOR" -> "for"
      [] type = "ENDWHILE" -> "while"
      [] type = "ENDFUNC" -> "func"

\* check_step that lets every `else` pass
check_stepElseUnchecked(st, tok) ==
    CASE tok.type \in {"IF", "FOR", "WHILE", "FUNC"} ->
            [st EXCEPT !.stack = Append(@, [kind |-> Lower(tok.value),
                                           line |-> tok.line])]
      [] tok.type \in {"ELIF", "ENDIF", "ENDFOR", "ENDWHILE", "ENDFUNC"} ->
            IF st.stack = <<>> \/ Last(st.stack).kind # OpenerOf(tok.type)
            THEN [st EXCEPT !.errors =
                     Append(@, [line |-> tok.line, kind |-> "without",
                                word |-> tok.value])]
            ELSE IF tok.type = "ELIF" THEN st
            ELSE [st EXCEPT !.stack = Front(@)]
      [] OTHER -> st

\* one iteration of the loop of check_structure on a token that is not EOF
check_step(st, tok) ==
    CASE tok.type \in {"IF", "FOR", "WHILE", "FUNC"} ->
            [st EXCEPT !.stack = Append(@, [kind |-> Lower(tok.value),
                                           line |-> tok.line])]
      [] tok.type \in {"ELIF", "ELSE", "ENDIF", "ENDFOR", "ENDWHILE", "ENDFUNC"} ->
            IF st.stack = <<>> \/ Last(st.stack).kind # OpenerOf(tok.type)
            THEN [st EXCEPT !.errors =
                     Append(@, [line |-> tok.line, kind |-> "without",
                                word |-> tok.value])]
            ELSE IF tok.type \in {"ELIF", "ELSE"} THEN st
            ELSE [st EXCEPT !.stack = Front(@)]
      [] OTHER -> st

\* the entries check_structure appends after the loop
Unclosed(stack) ==
    [k \in DOMAIN stack |->
        [line |-> stack[k].line, kind |-> "unclosed", word |-> stack[k].kind]]

\* SyntaxChecker.check_structure: one iteration, or the break at EOF and
\* the loop over the stack
CheckStep ==
    /\ lexed = "ok"
    /\ comp.started = <<>>
    /\ ~chk.done
    /\ chk.pos <= Len(tokens)
    /\ chk' = IF tokens[chk.pos].type = "EOF"
              THEN [chk EXCEPT !.errors = @ \o Unclosed(chk.stack),
                               !.done = TRUE]
              ELSE [check_step(chk, tokens[chk.pos]) EXCEPT !.pos = @ + 1]
    /\ UNCHANGED <<genVars, runVars, runs, written, source, tokens, lexed, merged,
                   comp>>

\* lines of the sources that are checked
CheckLines ==
    { <<"if", " ", "rax", " ", "==", " ", "0">>,
      <<"elif", " ", "rax", " ", "==", " ", "0">>,
      <<"else">>,
      <<"endif">>,
      <<"while", " ", "rax", " ", "<", " ", "3">>,
      <<"endwhile">>,
      <<"func", " ", "f">>,
      <<"endfor">> }

NextCheck ==
    \/ \E ln \in CheckLines : AddLine(ln, MaxCheckLines)
    \/ Tokenize
    \/ CheckStep

SpecCheck == Init /\ [][NextCheck]_vars

\* the structure keywords among the tokens, in order
Structure ==
    SelectSeq(tokens, LAMBDA t : t.type \in
        {"IF", "FOR", "WHILE", "FUNC", "ELIF", "ELSE", "ENDIF", "ENDFOR",
         "ENDWHILE", "ENDFUNC"})

RECURSIVE Reduce(_)
\* s after deleting, as long as there is one, an elif / else that directly
\* follows an `if`, or an opener directly followed by its closer
Reduce(s) ==
    LET mid == {i \in 1..(Len(s) - 1) :
                   s[i].type = "IF" /\ s[i + 1].type \in {"ELIF", "ELSE"}}
        pair == {i \in 1..(Len(s) - 1) :
                   /\ s[i].type \in {"IF", "FOR", "WHILE", "FUNC"}
                   /\ s[i + 1].type \in {"ENDIF", "ENDFOR", "ENDWHILE", "ENDFUNC"}
                   /\ OpenerOf(s[i + 1].type) = s[i].value}
        Cut(i, n) == SubSeq(s, 1, i - 1) \o SubSeq(s, i + n, Len(s))
    IN  IF mid # {} THEN Reduce(Cut((CHOOSE i \in mid : TRUE) + 1, 1))
        ELSE IF pair # {} THEN Reduce(Cut(CHOOSE i \in pair : TRUE, 2))
        ELSE s

Phases == <<"read", "lex", "check", "generate", "build", "write">>

RECURSIVE check(_, _)
\* SyntaxChecker(toks).check(), from the state st on
check(toks, st) ==
    IF st.pos > Len(toks) \/ toks[st.pos].type = "EOF"
    THEN [st EXCEPT !.errors = @ \o Unclosed(st.stack), !.done = TRUE]
    ELSE check(toks, [check_step(st, toks[st.pos]) EXCEPT !.pos = @ + 1])

\* CodeGenerator(toks).generate() raises: a break / continue met while
\* loop_stack is empty
GenRaises(toks) ==
    \E k \in DOMAIN toks :
        /\ toks[k].type \in {"BREAK", "CONTINUE"}
        /\ Cardinality({j \in 1..k : toks[j].type \in {"FOR", "WHILE"}})
              <= Cardinality({j \in 1..k : toks[j].type \in {"ENDFOR", "ENDWHILE"}})

\* PhaseOk that takes the checker's error list for empty
PhaseOkErrorsIgnored(ph, io_ok) ==
    CASE ph \in {"read", "write"} -> io_ok
      [] ph = "lex" -> tokenize(source, 1, FALSE).ok
      [] ph = "check" -> TRUE
      [] ph = "generate" -> ~GenRaises(tokens)
      [] ph = "build" -> TRUE

\* whether a phase of compile goes through; io_ok tells whether the file
\* operation of the read and write phases succeeds
PhaseOk(ph, io_ok) ==
    CASE ph \in {"read", "write"} -> io_ok
      [] ph = "lex" -> tokenize(source, 1, FALSE).ok
      [] ph = "check" -> check(tokens, chk).errors = <<>>
      [] ph = "generate" -> ~GenRaises(tokens)
      [] ph = "build" -> TRUE

\* the next try-block of Compiler.compile: the phase runs, and compile
\* returns False when it failed, True after the write
CompilePhase(io_ok) ==
    /\ source # <<>>
    /\ comp.result = "none"
    /\ LET ph == Phases[Len(comp.started) + 1]
           ok == PhaseOk(ph, io_ok)
       IN  /\ comp' = [started |-> Append(comp.started, ph),
                       result |-> IF ~ok THEN "False"
                                  ELSE IF ph = "write" THEN "True" ELSE "none",
                       failed |-> IF ok THEN "none" ELSE ph,
                       wrote  |-> ph = "write" /\ ok]
           /\ IF ph = "lex"
              THEN LET r == tokenize(source, 1, FALSE)
                   IN  /\ tokens' = r.toks
                       /\ lexed' = IF r.ok THEN "ok" ELSE "raised"
              ELSE UNCHANGED <<tokens, lexed>>
           /\ chk' = IF ph = "check" THEN check(tokens, chk) ELSE chk
    /\ UNCHANGED <<genVars, runVars, runs, written, source, merged>>

\* lines of the sources that are compiled
CompileLines ==
    { <<"if", " ", "rax", " ", "==", " ", "0">>,
      <<"endif">>,
      <<"while", " ", "rax", " ", "<", " ", "3">>,
      <<"endwhile">>,
      <<"break">>,
      <<" ", "nop">>,
      <<"call", " ", "print", " ", "\"hi">> }

NextCompile ==
    \/ \E ln \in CompileLines : AddLine(ln, MaxSrcLines)
    \/ \E io_ok \in BOOLEAN : CompilePhase(io_ok)

SpecCompile == Init /\ [][NextCompile]_vars

\* C17: the phases of compile start in the order read, lex, check,
\* generate, build, write; a phase that fails is the last one started and
\* makes the result False; generation starts only after the lexer returned
\* and the checker's list was empty; the file is written only when every
\* phase went through, and only then is the result True.
C17_PhaseOrder ==
    /\ comp.started = SubSeq(Phases, 1, Len(comp.started))
    /\ comp.failed # "none" =>
          comp.result = "False" /\ Last(comp.started) = comp.failed
    /\ comp.result = "False" => comp.failed # "none" /\ ~comp.wrote
    /\ (\E k \in DOMAIN comp.started : comp.started[k] = "generate") =>
          lexed = "ok" /\ chk.done /\ chk.errors = <<>>
    /\ comp.wrote =>
          /\ comp.started = Phases
          /\ lexed = "ok" /\ chk.errors = <<>> /\ ~GenRaises(tokens)
    /\ comp.result = "True" <=> comp.wrote

\* a run stopped by the checker, which did not start generation
C17_Witness ==
    /\ comp.result = "False"
    /\ comp.failed = "check"
    /\ chk.errors # <<>>
    /\ comp.started = <<"read", "lex", "check">>

(***************************************************************************)
(* Formatter                                                               *)
(***************************************************************************)
\* strip_comments; <bt> in an atom stands for a backtick
strip_comments(lines) ==
    LET Min(S) == CHOOSE i \in S : \A j \in S : i <= j
        Cut(ln) ==
            LET semi == {i \in DOMAIN ln : ln[i] = ";"}
                tick == {i \in DOMAIN ln : ln[i] \in {"<bt>a", "b<bt>"}}
            IN  IF semi # {} /\ tick # {} /\ Min(tick) < Min(semi)
                THEN [keep |-> TRUE, ln |-> rstrip(ln)]
                ELSE LET r == rstrip(IF semi # {}
                                     THEN SubSeq(ln, 1, Min(semi) - 1) ELSE ln)
                     IN  [keep |-> r # <<>>, ln |-> r]
        kept == SelectSeq([k \in DOMAIN lines |-> Cut(lines[k])],
                          LAMBDA c : c.keep)
    IN  [k \in DOMAIN kept |-> kept[k].ln]

\* SectionOf that knows no section directive
SectionOfNone(s) == "none"

\* the section a stripped line switches to: ls.startswith('section .data')
\* and the like ("none" for any other line)
SectionOf(s) ==
    IF Len(s) >= 3 /\ Lower(s[1]) = "section" /\ s[2] = " "
                   /\ s[3] \in {".data", ".bss", ".text"}
    THEN s[3] ELSE "none"

RECURSIVE collect_sections(_, _, _)
\* the loop of collect_sections from line i on; st holds cur and the five
\* buckets (seen_section is cur # "none")
collect_sections(lines, i, st) ==
    IF i > Len(lines) THEN st
    ELSE LET ln == lines[i]
             s == strip(ln)
             next ==
                 IF SectionOf(s) # "none" THEN [st EXCEPT !.cur = SectionOf(s)]
                 ELSE IF Len(s) >= 2 /\ Lower(s[1]) = "extern" /\ s[2] = " "
                      THEN [st EXCEPT !.externs =
                               Append(@, strip(SubSeq(s, 3, Len(s))))]
                 ELSE IF st.cur = "none"
                      THEN [st EXCEPT !.preamble = Append(@, ln)]
                 ELSE IF st.cur = ".data"
                      THEN IF s # <<>> THEN [st EXCEPT !.data = Append(@, ln)]
                           ELSE st
                 ELSE IF st.cur = ".bss"
                      THEN IF s # <<>> THEN [st EXCEPT !.bss = Append(@, ln)]
                           ELSE st
                 ELSE [st EXCEPT !.text = Append(@, ln)]
         IN  collect_sections(lines, i + 1, next)

\* in_macro when the loops of _convert_labels_in_macros and
\* remove_highlevel_directives reach line k; "hdr" / "ftr" when line k is
\* itself a macro header or footer
MacroState(lines, k) ==
    LET Hdr(j) == StartsWith(strip(lines[j]), {"%macro", "macro"})
        Ftr(j) == StartsWith(strip(lines[j]), {"%endmacro", "endmacro"})
        marks == {j \in 1..(k - 1) : Hdr(j) \/ Ftr(j)}
    IN  IF Hdr(k) THEN "hdr"
        ELSE IF Ftr(k) THEN "ftr"
        ELSE IF marks # {} /\ Hdr(CHOOSE j \in marks : \A m \in marks : m <= j)
             THEN "in" ELSE "out"

\* _convert_labels_in_macros nested in format_and_merge
convert_labels_in_macros(lines) ==
    LET sub(a) == CASE a = ".L0" -> "%%L0" [] a = ".L0:" -> "%%L0:" [] OTHER -> a
    IN  [k \in DOMAIN lines |->
            IF MacroState(lines, k) = "in"
            THEN [j \in DOMAIN lines[k] |-> sub(lines[k][j])]
            ELSE lines[k]]

\* remove_highlevel_directives nested in format_and_merge
remove_highlevel_directives(lines) ==
    LET directives == {"if", "elif", "else", "endif", "for", "endfor", "while",
                       "endwhile", "func", "endfunc"}
        kept == SelectSeq([k \in DOMAIN lines |-> <<k, lines[k]>>],
                    LAMBDA p : \/ MacroState(lines, p[1]) # "out"
                               \/ strip(p[2]) = <<>>
                               \/ FirstWord(strip(p[2])) \notin directives)
    IN  [k \in DOMAIN kept |-> kept[k][2]]

RECURSIVE merge_unique(_, _)
merge_unique(existing, additions) ==
    IF additions = <<>> THEN existing
    ELSE LET a == Head(additions)
         IN  IF a = <<>> \/ \E k \in DOMAIN existing : strip(existing[k]) = strip(a)
             THEN merge_unique(existing, Tail(additions))
             ELSE merge_unique(Append(existing, a), Tail(additions))

EmptyParts ==
    [cur |-> "none", preamble |-> <<>>, data |-> <<>>, bss |-> <<>>,
     externs |-> <<>>, text |-> <<>>]

\* the words of the formatted texts that end with ':'
LabelAtoms == {"main:", "_strlen:", "_scan_string:", ".L0:", ".loop:", ".done:"}

\* s.endswith(':') of a stripped line
EndsColon(s) == s # <<>> /\ Last(s) \in LabelAtoms

RECURSIVE RStripChunk(_)
\* '\n'.join(cur).rstrip(), as lines
RStripChunk(cur) ==
    IF cur = <<>> THEN <<>>
    ELSE IF rstrip(Last(cur)) = <<>> THEN RStripChunk(Front(cur))
    ELSE Front(cur) \o <<rstrip(Last(cur))>>

RECURSIVE split_functions(_, _, _, _)
\* the chunks of the library code: a new chunk starts at every line that
\* ends with ':' once the current chunk holds a line
split_functions(code, i, cur, funcs) ==
    IF i > Len(code)
    THEN IF cur # <<>> THEN Append(funcs, RStripChunk(cur)) ELSE funcs
    ELSE IF EndsColon(strip(code[i])) /\ cur # <<>>
    THEN split_functions(code, i + 1, <<code[i]>>,
                         Append(funcs, RStripChunk(cur)))
    ELSE split_functions(code, i + 1, Append(cur, code[i]), funcs)

RECURSIVE EmitFuncs(_)
\* each selected chunk followed by an empty line
EmitFuncs(fs) ==
    IF fs = <<>> THEN <<>> ELSE fs[1] \o << <<>> >> \o EmitFuncs(Tail(fs))

\* format_and_merge for arch x86_64; deps.code is the library code as lines
format_and_merge(original, generated_helpers, gen_blocks, deps, gen_data) ==
    LET parts == collect_sections(original, 1, EmptyParts)
        text == convert_labels_in_macros(parts.text)
        preamble == strip_comments(convert_labels_in_macros(parts.preamble))
        existing_externs == Range(parts.externs) \cup deps.externs
        merged_data == merge_unique(merge_unique(parts.data, deps.data),
                                    gen_data)
        merged_bss == merge_unique(parts.bss, deps.bss)
        existing_labels ==
            {strip(original[k]) : k \in {j \in DOMAIN original :
                EndsColon(strip(original[j]))}}
        stdlib_funcs ==
            SelectSeq(split_functions(deps.code, 1, <<>>, <<>>),
                      LAMBDA c : ~(EndsColon(strip(c[1]))
                                   /\ strip(c[1]) \in existing_labels))
        sorted == SelectSeq(<< <<"ReadConsoleA">>, <<"printf">> >>,
                            LAMBDA x : x \in existing_externs)
        helpers == SelectSeq(generated_helpers,
                             LAMBDA ln : SectionOf(strip(ln)) # ".text")
        sec(name) == <<"section", " ", name>>
        orig_lines == IF gen_blocks THEN remove_highlevel_directives(text)
                      ELSE text
        out_lines ==
            preamble \o << <<>> >>
            \o (IF existing_externs # {}
                THEN [k \in DOMAIN sorted |-> <<"extern", " ">> \o sorted[k]]
                     \o << <<>> >>
                ELSE <<>>)
            \o (IF merged_data # <<>>
                THEN <<sec(".data")>> \o strip_comments(merged_data) \o << <<>> >>
                ELSE <<>>)
            \o (IF merged_bss # <<>>
                THEN <<sec(".bss")>> \o strip_comments(merged_bss) \o << <<>> >>
                ELSE <<>>)
            \o (IF orig_lines # <<>> THEN <<sec(".text")>> ELSE <<>>)
            \o strip_comments(orig_lines) \o << <<>> >>
            \o (IF helpers # <<>>
                THEN SelectSeq(helpers, LAMBDA ln : strip(ln) # <<>>) \o << <<>> >>
                ELSE <<>>)
            \o (IF stdlib_funcs # <<>>
                THEN <<sec(".text")>> \o EmitFuncs(stdlib_funcs)
                ELSE <<>>)
        last == IF \E k \in DOMAIN out_lines : strip(out_lines[k]) # <<>>
                THEN CHOOSE k \in DOMAIN out_lines :
                        /\ strip(out_lines[k]) # <<>>
                        /\ \A j \in DOMAIN out_lines :
                              strip(out_lines[j]) # <<>> => j <= k
                ELSE 0
    IN  IF last = 0 THEN << <<>> >>
        ELSE [k \in 1..last |->
                 IF k = last THEN rstrip(out_lines[k]) ELSE out_lines[k]]

\* a caller hands the source and one generation's results to
\* format_and_merge
Format(run) ==
    /\ ~merged.done
    /\ lexed = "no"
    /\ comp.started = <<>>
    /\ merged' = [done |-> TRUE,
                  parts |-> collect_sections(source, 1, EmptyParts),
                  out |-> format_and_merge(source, run.helpers, run.gen_blocks,
                                           run.deps, run.data),
                  run |-> run]
    /\ UNCHANGED <<genVars, runVars, runs, written, source, tokens, lexed, chk,
                   comp>>

\* the code of the catalogue entry strlen
strlen_code ==
    << <<"_strlen:">>,
       <<" ", "xor", " ", "rax", ",", " ", "rax">>,
       <<" ", "mov", " ", "rdi", ",", " ", "rcx">>,
       <<".loop:">>,
       <<" ", "cmp", " ", "byte", " ", "[rdi]", ",", " ", "0">>,
       <<" ", "je", " ", ".done">>,
       <<" ", "inc", " ", "rax">>,
       <<" ", "inc", " ", "rdi">>,
       <<" ", "jmp", " ", ".loop">>,
       <<".done:">>,
       <<" ", "ret">> >>

\* a run without generated code or helpers, one with loose generated
\* lines, a data entry and the closure of a helper, and one whose only
\* dependency is strlen
PlainRun ==
    [helpers |-> <<>>, gen_blocks |-> FALSE, data |-> <<>>,
     deps |-> [externs |-> {}, data |-> <<>>, bss |-> <<>>, code |-> <<>>]]

FmtRuns ==
    { PlainRun,
      [helpers |-> << <<"section", " ", ".text">>, <<" ", "pop", " ", "rbp">> >>,
       gen_blocks |-> TRUE,
       data |-> << <<"_str_0", " ", "db", " ", "<bt>a", ";", "b<bt>">> >>,
       deps |-> [externs |-> {<<"ReadConsoleA">>}, data |-> <<>>,
                 bss |-> << <<"_bytes_read", " ", "resd", " ", "1">> >>,
                 code |-> << <<"_scan_string:">> >>]],
      [helpers |-> <<>>, gen_blocks |-> TRUE, data |-> <<>>,
       deps |-> [externs |-> {}, data |-> <<>>, bss |-> <<>>,
                 code |-> strlen_code]] }

\* lines of the sources that are formatted
FmtLines ==
    { <<"section", " ", ".data">>,
      <<"section", " ", ".text">>,
      <<"extern", " ", "printf">>,
      <<"%macro", " ", "m", " ", "0">>,
      <<"%endmacro">>,
      <<" ", "jmp", " ", ".L0">>,
      <<"msg", " ", "db", " ", "'a", ";", "b'">>,
      <<" ", "mov", " ", "rax", ",", " ", "1", " ", ";", " ", "c">>,
      <<"endif">>,
      <<".loop:">>,
      <<"_strlen:">> }

NextFmt ==
    \/ \E ln \in FmtLines : AddLine(ln, MaxFmtLines)
    \/ \E run \in FmtRuns : Format(run)

SpecFmt == Init /\ [][NextFmt]_vars

\* lines of the sources whose sections are collected
CollectLines ==
    { <<"section", " ", ".data">>,
      <<"section", " ", ".bss">>,
      <<" ", "Section", " ", ".text">>,
      <<"extern", " ", "printf">>,
      <<"msg", " ", "db", " ", "0">>,
      <<" ", "mov", " ", "rax", ",", " ", "1", " ", ";", " ", "c">>,
      <<" ">> }

NextCollect ==
    \/ \E ln \in CollectLines : AddLine(ln, MaxFmtLines)
    \/ Format(PlainRun)

SpecCollect == Init /\ [][NextCollect]_vars

\* number of entries of seq equal to x
CountIn(seq, x) == Cardinality({k \in DOMAIN seq : seq[k] = x})

\* the lines strictly inside a macro of the formatted text that has its
\* footer
InsideMacro ==
    {k \in DOMAIN merged.out :
        /\ MacroState(merged.out, k) = "in"
        /\ \E j \in DOMAIN merged.out :
              j > k /\ MacroState(merged.out, j) = "ftr"}

\* C11: no line strictly inside a macro of the text format_and_merge
\* returns holds a .L<n> label or reference.
C11_MacroLabelsLocal ==
    merged.done =>
        \A k \in InsideMacro :
            \A j \in DOMAIN merged.out[k] : merged.out[k][j] \notin {".L0", ".L0:"}

\* lines that are neither blank nor comment-only
CodeLines(lines) ==
    SelectSeq(lines, LAMBDA ln : strip(ln) # <<>> /\ strip(ln)[1] # ";")

\* C14: for a source without high-level keyword lines, formatted without
\* generated code or helpers, the non-blank, non-comment lines of the output
\* are a permutation of those of the source, each line unchanged.
C14_OutputPermutesSource ==
    (/\ merged.done
     /\ merged.run = PlainRun
     /\ \A k \in DOMAIN source : FirstWord(strip(source[k])) \notin keywords) =>
        \A ln \in Range(CodeLines(source)) \cup Range(CodeLines(merged.out)) :
            CountIn(CodeLines(merged.out), ln) = CountIn(CodeLines(source), ln)

\* the operand text of an `extern ` line, <<"-">> for any other line
ExternOperand(ln) ==
    LET s == strip(ln)
    IN  IF Len(s) >= 2 /\ Lower(s[1]) = "extern" /\ s[2] = " "
        THEN strip(SubSeq(s, 3, Len(s))) ELSE <<"-">>

\* how often a source line was put into a bucket: an extern line by its
\* operand text in externs, any other line as it is
Placed(ln) ==
    IF ExternOperand(ln) # <<"-">>
    THEN CountIn(merged.parts.externs, ExternOperand(ln))
    ELSE CountIn(merged.parts.preamble \o merged.parts.data \o merged.parts.bss
                    \o merged.parts.text, ln)

\* how often the line (for an extern line: its operand) is in the source
Given(ln) ==
    IF ExternOperand(ln) # <<"-">>
    THEN Cardinality({k \in DOMAIN source :
                         ExternOperand(source[k]) = ExternOperand(ln)})
    ELSE CountIn(source, ln)

\* a `section .data` / `.bss` / `.text` directive line
IsSectionLine(ln) ==
    LET s == strip(ln)
    IN  Len(s) >= 3 /\ Lower(s[1]) = "section" /\ s[2] = " "
                    /\ s[3] \in {".data", ".bss", ".text"}

\* C19: collect_sections puts every non-blank source line, the section
\* directive lines included, into exactly one bucket.
C19_EveryLineBucketed ==
    merged.done =>
        \A k \in DOMAIN source :
            strip(source[k]) # <<>> => Placed(source[k]) = Given(source[k])

\* C19 (amended): every non-blank source line that is not a section
\* directive line is put into exactly one bucket (an extern line as its
\* operand text into externs); a section directive line is put into none.
C19_NonDirectiveLinesBucketed ==
    merged.done =>
        \A k \in DOMAIN source :
            strip(source[k]) # <<>> =>
                IF IsSectionLine(source[k]) THEN Placed(source[k]) = 0
                ELSE Placed(source[k]) = Given(source[k])

\* a source with a data line, an extern line and a text line under their
\* directives was collected
C19_Witness ==
    /\ merged.done
    /\ source = << <<"section", " ", ".data">>, <<"msg", " ", "db", " ", "0">>,
                   <<" ", "Section", " ", ".text">>, <<"extern", " ", "printf">> >>
    /\ merged.parts.data = << <<"msg", " ", "db", " ", "0">> >>
    /\ merged.parts.externs = << <<"printf">> >>

(***************************************************************************)
(* Functions with parameters, generated and then entered by a caller       *)
(***************************************************************************)
\* parameter lists of the functions that are entered
EntryParams == {<<>>, <<"a">>, <<"a", "b">>, <<"a", "b", "c">>,
                <<"a", "b", "c", "d">>}

\* values a caller leaves in rcx, rdx, r8, r9
EntryArgs == { <<1, 2, 3, 0>>, <<3, 3, 1, 2>> }

\* a caller reaches the label of function block id with its arguments in
\* the argument registers (Microsoft x64 convention)
Enter(id, args) ==
    /\ status = "done"
    /\ pc = 0
    /\ id \in FuncBlockIds
    /\ pc' = StartIdx(id) + 1
    /\ regs' = [r \in {"rcx", "rdx", "r8", "r9", "rsp", "rbp"} |->
                   CASE r = "rcx" -> args[1] [] r = "rdx" -> args[2]
                     [] r = "r8" -> args[3] [] r = "r9" -> args[4]
                     [] OTHER -> 0]
    /\ entry' = [id |-> id, regs |-> regs']
    /\ UNCHANGED <<genVars, flags, entries, runs, pipeVars>>

NextFunc ==
    \/ \E ps \in EntryParams : frames = <<>> /\ FuncOpen("f", ps)
    \/ EndFunc
    \/ \E w \in AsmLines : AsmLine(w)
    \/ Finish
    \/ \E id \in FuncBlockIds, a \in EntryArgs : Enter(id, a)
    \/ RunStep

SpecFunc == Init /\ [][NextFunc]_vars

\* the prologue moves of function block id: the mov lines that follow
\* `mov rbp, rsp`
PrologueMoves(id) ==
    LET first == StartIdx(id) + 4
        ismov(k) == k \in DOMAIN output /\ output[k].op = "mov"
    IN  {k \in first..Len(output) : \A j \in first..k : ismov(j)}

\* C21: once the prologue of a 64-bit function with at most 4 parameters
\* has executed, the register of the i-th parameter holds what the i-th
\* argument register held at entry.
C21_PrologueKeepsArguments ==
    (/\ entry.id # -1
     /\ bits = 64
     /\ pc = StartIdx(entry.id) + 4 + Cardinality(PrologueMoves(entry.id))) =>
        \A k \in PrologueMoves(entry.id) :
            regs[Phys(output[k].dst)] = entry.regs[output[k].src]

(***************************************************************************)
(* Conditionals on a register, generated and then executed                 *)
(***************************************************************************)
\* conditions with a register on one side
RunConds == { <<Reg("rax"), "EQ", Num("0")>>,
              <<Reg("rax"), "GE", Num("1")>>,
              <<Num("1"), "EQ", Reg("rax")>>,
              <<Num("1"), "LT", Reg("rax")>> }

\* values rax holds when the generated code starts
RunValues == {0, 1, 3}

\* the generated code is started with rax = v
Start(v) ==
    /\ status = "done"
    /\ pc = 0
    /\ pc' = 1
    /\ regs' = [r \in {"rax"} |-> v]
    /\ UNCHANGED <<genVars, flags, entries, entry, runs, pipeVars>>

NextCond ==
    \/ \E c \in RunConds : IfOpen(c[1], c[2], c[3])
    \/ EndIf
    \/ \E w \in AsmLines : AsmLine(w)
    \/ Finish
    \/ \E v \in RunValues : Start(v)
    \/ RunStep

SpecCond == Init /\ [][NextCond]_vars

\* run-time value of a condition operand
OperandVal(t) == IF t.type = "NUMBER" THEN NumVal[t.value] ELSE regs[Phys(t.value)]

\* the `if` headers with a cmp whose conditional jump is the next line to
\* execute
AtJump ==
    {x \in DOMAIN iflog :
        /\ ~BothNumeric(iflog[x].lhs, iflog[x].rhs)
        /\ pc = StartIdx(iflog[x].id) + 2}

\* C22: the compare-and-jump pair of an `if` condition L op R skips the body
\* exactly when L op R is false for the run-time values, also when L is a
\* literal and the cmp operands are swapped.
C22_JumpIffConditionFalse ==
    \A x \in AtJump :
        Taken(output[pc].op, flags[1], flags[2])
            <=> ~cond_map(iflog[x].op, OperandVal(iflog[x].lhs),
                          OperandVal(iflog[x].rhs))

\* the open loops, innermost last
LoopFrames == SelectSeq(frames, LAMBDA f : f.kind \in {"for", "while"})

\* C23: break / continue outside every loop raises at the line of its token
\* and appends nothing; inside a loop it appends one jmp to the break /
\* continue label of the innermost open loop; the loop stack is as deep as
\* the number of open loops.
C23_BreakContinue ==
    [][/\ Len(loop_stack) = Len(LoopFrames)
       /\ (status = "gen" /\ status' = "error") =>
             /\ LoopFrames = <<>>
             /\ output' = output
             /\ line' = line
       /\ (status' = "gen" /\ SubSeq(output', 1, Len(output)) = output) =>
             \A k \in DOMAIN Emitted :
                 (Emitted[k].op = "jmp" /\ Emitted[k].by \in {"break", "continue"}) =>
                     /\ Len(Emitted) = 1
                     /\ LoopFrames # <<>>
                     /\ Emitted[k].lbl =
                           IF Emitted[k].by = "break" THEN Last(LoopFrames).l_end
                           ELSE Last(LoopFrames).l_cont]_vars

\* a break was generated inside two nested loops
C23_Witness ==
    /\ Len(loop_stack) = 2
    /\ output # <<>>
    /\ Last(output).op = "jmp"
    /\ Last(output).by = "break"
    /\ Last(output).lbl = Last(loop_stack).break

(***************************************************************************)
(* CodeGenerator driven by the token list of the lexer                     *)
(***************************************************************************)
\* the tokens of source line n, in order
LineToks(n) == SelectSeq(tokens, LAMBDA t : t.line = n)

\* a token of generate_block / generate that no branch handles: advance
Skip ==
    /\ CanRead
    /\ line' = line + 1
    /\ UNCHANGED <<bits, reg_pool, output, label_counter, block_counter,
                   string_counter, data_section, stdlib_used, loop_stack,
                   register_map, functions, current_function, frames, status,
                   iflog, calllog, forlog, runVars, runs, pipeVars>>

\* a SyntaxError leaves generate()
Raise ==
    /\ CanRead
    /\ status' = "error"
    /\ UNCHANGED <<bits, reg_pool, output, label_counter, block_counter,
                   string_counter, data_section, stdlib_used, loop_stack,
                   register_map, functions, current_function, frames, line,
                   iflog, calllog, forlog, runVars, runs, pipeVars>>

\* whether generate_if parses the condition of the line: an operand that
\* parse_operand takes (the bracket forms are not among the inputs), a
\* comparison operator, and a number or operand
IfParses(toks) ==
    /\ Len(toks) >= 4
    /\ toks[2].type \in {"IDENTIFIER", "REGISTER", "NUMBER"}
    /\ toks[3].type \in CmpOps
    /\ toks[4].type \in {"IDENTIFIER", "REGISTER", "NUMBER"}

\* the operand record of a NUMBER / REGISTER / IDENTIFIER token
TokOperand(t) == [type |-> t.type, value |-> t.value]

\* the work of generate() / generate_block on the tokens of the current
\* line; the token list has passed SyntaxChecker.check as in
\* Compiler.compile
GenLine ==
    /\ lexed = "ok"
    /\ check(tokens, [pos |-> 1, stack |-> <<>>, errors |-> <<>>,
                      done |-> FALSE]).errors = <<>>
    /\ LineToks(line) # <<>>
    /\ LET toks == LineToks(line)
           t == toks[1]
       IN  CASE t.type = "EOF" -> Finish
             [] t.type = "ASM_LINE" -> AsmLine(t.value)
             [] /\ t.type = "IDENTIFIER" /\ t.value = "bits" /\ frames = <<>>
                /\ Len(toks) >= 2 /\ toks[2].type = "NUMBER"
                /\ toks[2].value \in {"32", "64"} ->
                    SetBits(IF toks[2].value = "32" THEN 32 ELSE 64)
             [] t.type = "IF" ->
                    IF IfParses(toks)
                    THEN IfOpen(TokOperand(toks[2]), toks[3].type,
                                TokOperand(toks[4]))
                    ELSE Raise
             [] t.type = "ENDIF" -> EndIf
             [] t.type = "FOR" -> ForOpen(toks[2].value, toks[4].value, toks[6].value)
             [] t.type = "ENDFOR" -> EndFor
             [] t.type = "FUNC" -> FuncOpen(toks[2].value, <<>>)
             [] t.type = "ENDFUNC" -> EndFunc
             [] OTHER -> Skip

MaxBitsLines == 5    \* lines of the sources with a bits directive

\* lines of the sources with a bits directive
BitsLines ==
    { <<"bits", " ", "32">>,
      <<"bits", " ", "64">>,
      <<"func", " ", "f">>,
      <<"endfunc">>,
      <<"%macro", " ", "m", " ", "0">>,
      <<"%endmacro">> }

NextBits ==
    \/ \E ln \in BitsLines : AddLine(ln, MaxBitsLines)
    \/ Tokenize
    \/ GenLine

SpecBits == Init /\ [][NextBits]_vars

\* the mode the last `bits` line above source line n asks for, 0 if none
AskedBits(n) ==
    LET above == {k \in 1..(n - 1) :
                     k \in DOMAIN source /\ FirstWord(strip(source[k])) = "bits"}
    IN  IF above = {} THEN 0
        ELSE LET k == CHOOSE x \in above : \A y \in above : y <= x
             IN  IF strip(source[k])[3] = "32" THEN 32 ELSE 64

\* C24: a `func` generated after a source line `bits 32` (`bits 64`) gets
\* the 32-bit (64-bit) prologue.
C24_BitsDirectiveSwitches ==
    \A k \in DOMAIN output :
        (output[k].op = "flabel" /\ AskedBits(output[k - 1].line) # 0) =>
            output[k + 1].dst =
                IF AskedBits(output[k - 1].line) = 32 THEN "ebp" ELSE "rbp"

(***************************************************************************)
(* Signed numbers in a condition                                           *)
(***************************************************************************)
MaxNumChars == 13    \* characters of the condition lines that are scanned

\* beginnings of the first line
NumPrefixes == { <<"i", "f", " ", "r", "a", "x", " ", "=", "=", " ">>,
                 <<"i", "f", " ", "1", " ", "<", " ", "r", "a", "x">> }

\* characters the first line continues with
NumChars == {"-", "+", "1", "0", "x", " "}

NextNum ==
    \/ \E ln \in NumPrefixes \cup { <<"endif">> } : AddLine(ln, 2)
    \/ \E c \in NumChars : AddChar(c, MaxNumChars)
    \/ Tokenize
    \/ GenLine

SpecNum == Init /\ [][NextNum]_vars

\* the signs of line ln that begin a lexeme and are immediately followed by
\* a digit
AbsorbedSigns(ln) ==
    {k \in DOMAIN ln : /\ ln[k] \in {"+", "-"}
                       /\ k > 1 /\ ln[k - 1] = " "
                       /\ k < Len(ln)
                       /\ ln[k + 1] \in Digits}

\* C25: a sign immediately followed by a digit yields no PLUS / MINUS
\* token of its own, `if rax == -1` tokenises as IF, REGISTER, EQ,
\* NUMBER -1, NEWLINE, and generate_if accepts it.
C25_SignAbsorbed ==
    (lexed = "ok" /\ InChars(source[1])) =>
        /\ Cardinality({k \in DOMAIN tokens :
                           tokens[k].line = 1 /\ tokens[k].type \in {"PLUS", "MINUS"}})
           <= Cardinality({k \in DOMAIN source[1] : source[1][k] \in {"+", "-"}}
                             \ AbsorbedSigns(source[1]))
        /\ source[1] = <<"i", "f", " ", "r", "a", "x", " ", "=", "=", " ", "-", "1">> =>
              /\ [k \in 1..5 |-> LineToks(1)[k].type]
                    = <<"IF", "REGISTER", "EQ", "NUMBER", "NEWLINE">>
              /\ LineToks(1)[4].value = "-1"
              /\ status # "error"

(***************************************************************************)
(* String literals in a call                                               *)
(***************************************************************************)
MaxStrChars == 16    \* characters of the call lines that are scanned

\* `call print "`: the first line up to the opening quote
StrPrefix == <<"c", "a", "l", "l", " ", "p", "r", "i", "n", "t", " ", "\"">>

\* characters the literal continues with
StrChars == {"\"", "\\", "n", "a"}

NextStr ==
    \/ AddLine(StrPrefix, 1)
    \/ \E c \in StrChars : AddChar(c, MaxStrChars)
    \/ Tokenize

SpecStr == Init /\ [][NextStr]_vars

RECURSIVE Closing(_, _)
\* index of the quote that ends the literal whose text starts at j: the
\* first quote that is not part of an escape; Len(ln) + 1 when none
Closing(ln, j) ==
    IF j > Len(ln) THEN j
    ELSE IF ln[j] = "\\" THEN Closing(ln, j + 2)
    ELSE IF ln[j] = "\"" THEN j
    ELSE Closing(ln, j + 1)

RECURSIVE Decoded(_)
\* the text of a literal decoded left to right, each escape consumed once
Decoded(cs) ==
    IF cs = <<>> THEN <<>>
    ELSE IF cs[1] = "\\" /\ Len(cs) >= 2
              /\ cs[2] \in {"n", "t", "r", "\"", "\\"}
         THEN <<CASE cs[2] = "n" -> "\n" [] cs[2] = "t" -> "\t"
                  [] cs[2] = "r" -> "\r" [] OTHER -> cs[2]>>
              \o Decoded(SubSeq(cs, 3, Len(cs)))
         ELSE <<cs[1]>> \o Decoded(Tail(cs))

\* the STRING tokens of line 1, in order
Strings == SelectSeq(tokens, LAMBDA t : t.line = 1 /\ t.type = "STRING")

\* C26: the value of the STRING token of a terminated literal is the
\* literal decoded left to right; a line with an unterminated literal makes
\* the lexer raise.
C26_StringDecoded ==
    (source # <<>> /\ lexed # "no") =>
        LET ln == source[1]
            first == Len(StrPrefix) + 1
            close == Closing(ln, first)
        IN  /\ close > Len(ln) => lexed = "raised"
            /\ lexed = "ok" =>
                  /\ Strings # <<>>
                  /\ Strings[1].value = Join(Decoded(SubSeq(ln, first, close - 1)))

\* the keywords whose lines are high-level lines for the formatter's output
HighLevelWords ==
    {"if", "elif", "else", "endif", "for", "endfor", "while", "endwhile",
     "func", "endfunc", "return", "break", "continue"}

\* C27: in the text format_and_merge returns, no line outside a macro body
\* starts with a high-level keyword, with or without generated blocks.
C27_NoKeywordLineLeft ==
    merged.done =>
        \A k \in DOMAIN merged.out :
            MacroState(merged.out, k) = "out" =>
                FirstWord(strip(merged.out[k])) \notin HighLevelWords

\* the lines of a helper's code that are not label lines
BodyLines(code) ==
    {code[k] : k \in {j \in DOMAIN code : ~EndsColon(strip(code[j]))}}

\* C28: format_and_merge emits the body of a helper whole or not at all,
\* whatever labels the user's source defines.
C28_HelperWholeOrAbsent ==
    merged.done =>
        LET body == BodyLines(merged.run.deps.code)
            emitted == {b \in body : \E k \in DOMAIN merged.out :
                                        merged.out[k] = b}
        IN  emitted = body \/ emitted = {}

\* nested constructs and calls, closed or cut short by an unclosed call
NextNest ==
    \/ ForOpen("i", "0", "2")
    \/ EndFor
    \/ WhileOpen(Reg("rax"), "LT", Num("3"))
    \/ EndWhile
    \/ FuncOpen("f", <<>>)
    \/ EndFunc
    \/ IfOpen(Reg("rax"), "EQ", Num("0"))
    \/ Else
    \/ EndIf
    \/ Call("foo", <<>>)
    \/ CallUnclosed("foo", <<Num("1")>>)
    \/ Finish

SpecNest == Init /\ [][NextNest]_vars

RECURSIVE WellNested(_, _, _)
\* the markers from line i on close the blocks of `open` (innermost last)
\* and their own in bracket order, with ids above `last` and increasing
WellNested(i, open, last) ==
    IF i > Len(output) THEN open = <<>>
    ELSE CASE output[i].op = "gen_start" ->
                /\ output[i].id > last
                /\ WellNested(i + 1, Append(open, output[i].id), output[i].id)
           [] output[i].op = "gen_end" ->
                /\ open # <<>>
                /\ Last(open) = output[i].id
                /\ WellNested(i + 1, Front(open), last)
           [] OTHER -> WellNested(i + 1, open, last)

\* the source lines a closed block spans
LineRange(id) == output[StartIdx(id)].line .. output[EndIdx(id)].line

\* C29: in the output of a finished generation the markers are properly
\* nested with increasing distinct ids, every block ends at or after its
\* start line, and the line range of a block lies within the range of each
\* block around it.
C29_MarkersNested ==
    status = "done" =>
        /\ WellNested(1, <<>>, -1)
        /\ \A id \in BlockIds :
              output[StartIdx(id)].line <= output[EndIdx(id)].line
        /\ \A outer, inner \in BlockIds :
              Inside(StartIdx(inner), outer) =>
                  LineRange(inner) \subseteq LineRange(outer)

MaxInlineLines == 5    \* lines of the sources with inline assembly

\* lines of the sources with inline assembly in constructs and macros
InlineLines ==
    { <<"if", " ", "rax", " ", "==", " ", "0">>,
      <<"endif">>,
      <<"for", " ", "i", " ", "=", " ", "0", ",", " ", "2">>,
      <<"endfor">>,
      <<" ", "mov", " ", "rax", ",", " ", "i">>,
      <<"%macro", " ", "m", " ", "0">>,
      <<"%endmacro">> }

NextInline ==
    \/ \E ln \in InlineLines : AddLine(ln, MaxInlineLines)
    \/ Tokenize
    \/ GenLine

SpecInline == Init /\ [][NextInline]_vars

\* the source lines strictly between lines a and b that do not start with a
\* keyword, in source order
InlineBetween(a, b) ==
    SelectSeq([k \in DOMAIN source |-> <<k, source[k]>>],
              LAMBDA p : /\ a < p[1] /\ p[1] < b
                         /\ FirstWord(strip(p[2])) \notin keywords)

\* the ASM lines emitted between the markers of block id, in output order
AsmOfBlock(id) ==
    SelectSeq(SubSeq(output, StartIdx(id), EndIdx(id)), LAMBDA l : l.op = "asm")

\* an emitted line equals a source line up to words replaced by a register
SameUpToRemap(src, out) ==
    /\ Len(src) = Len(out)
    /\ \A j \in DOMAIN src :
          out[j] = src[j] \/ (src[j] = "i" /\ out[j] \in {"r8d", "r9d", "r10d"})

\* C30: the inline assembly lines written between the opener and the closer
\* of a construct are, in source order and each once, the ASM lines of the
\* construct's block (up to remapped words), inside a macro as outside.
C30_InlineAsmInBlock ==
    status = "done" =>
        \A id \in BlockIds :
            LET want == InlineBetween(output[StartIdx(id)].line,
                                      output[EndIdx(id)].line)
                got == AsmOfBlock(id)
            IN  /\ Len(got) = Len(want)
                /\ \A k \in DOMAIN want :
                      SameUpToRemap(want[k][2], got[k].words)

====
